---- MODULE Spec2Model ----
(***************************************************************************)
(* A model of the three-salmons chess engine: the bitboard position        *)
(* (board.rs), its make_move mutator, and the move generator with its      *)
(* attack queries and legality filter (movegen.rs).                        *)
(*                                                                         *)
(* A u64 bitboard is modelled as the set of its set bits (a set of squares *)
(* 0..63): x | m is union, x & !m is set difference, (x & m) != 0 is a     *)
(* non-empty intersection.  Option<T> is a sequence: <<>> is None and      *)
(* <<x>> is Some(x).  castling_rights (u8, 4 bits used) is the set of its  *)
(* set single-bit masks, a subset of {1, 2, 4, 8}.                         *)
(***************************************************************************)
EXTENDS Integers, Sequences, FiniteSets, TLC

VARIABLES
    board,          \* the canonical Board (uci.rs UciHandler.board)
    prev_board,     \* history: the Board before the last make_move
    last_move,      \* history: Option<Move>, the move of the last make_move
    line,           \* input: which opening line the caller follows
    played,         \* number of moves of the line played so far
    explored,       \* number of plies played freely after the line
    quiet_plies,    \* history: plies since the last pawn move or capture
    panicked,       \* the process aborted on an arithmetic overflow check
    perft_results,  \* lib.rs test_perft_initial_position: results so far
    move_history,   \* input: the move_history slice given to get_game_state
    game_state,     \* Option<GameState>: what get_game_state returned
    tt,             \* the TranspositionTable
    last_stored,    \* history: Option of the last store and whether it evicted
    probe_call,     \* history: Option of the last probe, arguments and result
    search,         \* uci.rs UciEngine.search: the Search
    bestmoves,      \* history: the go commands given, position and outcome
    parsed,         \* history: Option of the last move string tried
    evaluation      \* Option of what Evaluator::evaluate returned

vars == <<board, prev_board, last_move, line, played, explored, quiet_plies,
          panicked, perft_results, move_history, game_state,
          tt, last_stored, probe_call, search, bestmoves, parsed, evaluation>>

\* the variables of the games
game_vars == <<board, prev_board, last_move, line, played, explored,
               quiet_plies, panicked, perft_results>>

\* the variables of the game-state classifier
classifier_vars == <<move_history, game_state>>

\* the variables of the transposition table
table_vars == <<tt, last_stored, probe_call>>

\* the variables of the search
search_vars == <<search, bestmoves>>

\* the variables of the position command and of the evaluator
position_vars == <<parsed, evaluation>>

----------------------------------------------------------------------------
(* Option<T> *)

None == <<>>

Some(x) == <<x>>

unwrap(o) == o[1]

Min(S) == CHOOSE x \in S : \A y \in S : x <= y

Abs(x) == IF x < 0 THEN -x ELSE x

----------------------------------------------------------------------------
(* board.rs: Piece, Color, Board *)

Piece == {"Pawn", "Knight", "Bishop", "Rook", "Queen", "King"}

Color == {"White", "Black"}

opposite(c) == IF c = "White" THEN "Black" ELSE "White"

\* the `match piece { Piece::Pawn => 0, ... }` blocks of make_move
piece_index(p) ==
    CASE p = "Pawn" -> 0 [] p = "Knight" -> 1 [] p = "Bishop" -> 2
      [] p = "Rook" -> 3 [] p = "Queen" -> 4 [] p = "King" -> 5

\* the `match i { 0 => Piece::Pawn, ... }` blocks of get_piece_at
piece_of_index(i) ==
    CASE i = 0 -> "Pawn" [] i = 1 -> "Knight" [] i = 2 -> "Bishop"
      [] i = 3 -> "Rook" [] i = 4 -> "Queen" [] i = 5 -> "King"

\* Board::new(): the standard initial array
Board_new ==
    [ white_pieces |-> [i \in 0..5 |->
          <<8..15, {1, 6}, {2, 5}, {0, 7}, {3}, {4}>>[i + 1]],
      black_pieces |-> [i \in 0..5 |->
          <<48..55, {57, 62}, {58, 61}, {56, 63}, {59}, {60}>>[i + 1]],
      side_to_move |-> "White",
      castling_rights |-> {1, 2, 4, 8},
      en_passant_square |-> None,
      halfmove_clock |-> 0,
      fullmove_number |-> 1 ]

\* the pieces of one colour
pieces_of(b, c) == IF c = "White" THEN b.white_pieces ELSE b.black_pieces

\* fold(0, |acc, p| acc | p) over both colours' bitboards
occupied_of(b) ==
    UNION {b.white_pieces[i] : i \in 0..5} \cup UNION {b.black_pieces[i] : i \in 0..5}

\* iter().any(|&p| (p & mask) != 0) over one colour's bitboards
any_piece(pieces, square) == \E i \in 0..5 : square \in pieces[i]

----------------------------------------------------------------------------
(* movegen.rs: Move and its constructors *)

Move_new(from, to, piece) ==
    [ from |-> from, to |-> to, piece |-> piece, captured_piece |-> None,
      promotion |-> None, is_en_passant |-> FALSE, is_castling |-> FALSE,
      castling_rook_from |-> None, castling_rook_to |-> None ]

Move_new_en_passant(from, to, piece) ==
    [ Move_new(from, to, piece) EXCEPT
        !.captured_piece = Some("Pawn"), !.is_en_passant = TRUE ]

Move_new_castling(from, to, rook_from, rook_to) ==
    [ Move_new(from, to, "King") EXCEPT
        !.is_castling = TRUE, !.castling_rook_from = Some(rook_from),
        !.castling_rook_to = Some(rook_to) ]

Move_new_promotion(from, to, promotion) ==
    [ Move_new(from, to, "Pawn") EXCEPT !.promotion = Some(promotion) ]

Move_new_promotion_capture(from, to, captured_piece, promotion) ==
    [ Move_new(from, to, "Pawn") EXCEPT
        !.captured_piece = Some(captured_piece), !.promotion = Some(promotion) ]

----------------------------------------------------------------------------
(* board.rs: Board::make_move *)

\* the index of the first bitboard of `pieces` that holds `square`, or 6
first_index_at(pieces, square) ==
    IF any_piece(pieces, square)
    THEN Min({i \in 0..5 : square \in pieces[i]})
    ELSE 6

\* `self.halfmove_clock += 1` on a u8 that holds 255
halfmove_overflows(b, mv) ==
    /\ ~(mv.piece = "Pawn" \/ mv.captured_piece # None)
    /\ b.halfmove_clock = 255

\* captured_pieces with a seeded fault: the captured piece's bit is never
\* cleared
captured_pieces_not_cleared(b, mv) == pieces_of(b, opposite(b.side_to_move))

\* "Handle captures": the opponent's bitboards after the move
captured_pieces(b, mv) ==
    LET is_white == b.side_to_move = "White"
        others == pieces_of(b, opposite(b.side_to_move))
        captured_square ==
            IF mv.is_en_passant
            THEN (IF is_white THEN mv.to - 8 ELSE mv.to + 8)
            ELSE mv.to
    IN  IF mv.captured_piece # None
        THEN [others EXCEPT ![piece_index(unwrap(mv.captured_piece))] =
                                @ \ {captured_square}]
        ELSE others

\* "Remove piece from source square", "Place piece on target square",
\* "Handle promotion", "Handle castling": the mover's bitboards after the move
moved_pieces(b, mv) ==
    LET is_white == b.side_to_move = "White"
        pieces == pieces_of(b, b.side_to_move)
        first == first_index_at(pieces, mv.from)
        removed == [i \in 0..5 |->
                      IF i = first THEN pieces[i] \ {mv.from} ELSE pieces[i]]
        placed_index ==
            IF mv.promotion # None
            THEN piece_index(unwrap(mv.promotion))
            ELSE piece_index(mv.piece)
        placed == [removed EXCEPT ![placed_index] = @ \cup {mv.to}]
        rook_from == IF mv.to > mv.from
                     THEN (IF is_white THEN 7 ELSE 63)
                     ELSE (IF is_white THEN 0 ELSE 56)
        rook_to == IF mv.to > mv.from
                   THEN (IF is_white THEN 5 ELSE 61)
                   ELSE (IF is_white THEN 3 ELSE 59)
    IN  IF mv.is_castling
        THEN [placed EXCEPT ![3] = (@ \ {rook_from}) \cup {rook_to}]
        ELSE placed

\* updated_castling_rights with a seeded fault: a king move toggles (^=) its
\* side's rights instead of clearing them
updated_castling_rights_toggled(b, mv) ==
    LET mask == IF b.side_to_move = "White" THEN {1, 2} ELSE {4, 8}
    IN  IF mv.piece = "King"
        THEN (b.castling_rights \ mask) \cup (mask \ b.castling_rights)
        ELSE b.castling_rights

\* "Update castling rights"
updated_castling_rights(b, mv) ==
    LET is_white == b.side_to_move = "White"
    IN  IF mv.piece = "King"
        THEN (IF is_white THEN b.castling_rights \ {1, 2}
                           ELSE b.castling_rights \ {4, 8})
        ELSE IF mv.piece = "Rook"
        THEN (CASE is_white /\ mv.from = 0 -> b.castling_rights \ {2}
                [] is_white /\ mv.from = 7 -> b.castling_rights \ {1}
                [] ~is_white /\ mv.from = 56 -> b.castling_rights \ {8}
                [] ~is_white /\ mv.from = 63 -> b.castling_rights \ {4}
                [] OTHER -> b.castling_rights)
        ELSE b.castling_rights

\* updated_en_passant_square with a seeded fault: a move that is no double
\* push leaves the old target in place
updated_en_passant_square_stale(b, mv) ==
    IF mv.piece = "Pawn" /\ Abs(mv.to - mv.from) = 16
    THEN Some(IF b.side_to_move = "White" THEN mv.from + 8 ELSE mv.from - 8)
    ELSE b.en_passant_square

\* updated_en_passant_square with a seeded fault: the distance of the pawn
\* move is not tested
updated_en_passant_square_any_push(b, mv) ==
    IF mv.piece = "Pawn"
    THEN Some(IF b.side_to_move = "White" THEN mv.from + 8 ELSE mv.from - 8)
    ELSE None

\* "Update en passant square"
updated_en_passant_square(b, mv) ==
    IF mv.piece = "Pawn" /\ Abs(mv.to - mv.from) = 16
    THEN Some(IF b.side_to_move = "White" THEN mv.from + 8 ELSE mv.from - 8)
    ELSE None

\* "Update move counters": halfmove_clock; an overflowing `+= 1` wraps, as in
\* a build without overflow checks (with them the call panics: MakeMovePanics)
updated_halfmove_clock(b, mv) ==
    IF mv.piece = "Pawn" \/ mv.captured_piece # None
    THEN 0
    ELSE (b.halfmove_clock + 1) % 256

\* "Update move counters": fullmove_number (u16; 65535 is beyond every game
\* played here)
updated_fullmove_number(b, mv) ==
    IF b.side_to_move # "White"
    THEN (b.fullmove_number + 1) % 65536
    ELSE b.fullmove_number

make_move(b, mv) ==
    LET is_white == b.side_to_move = "White"
    IN  [ white_pieces |-> IF is_white THEN moved_pieces(b, mv)
                                       ELSE captured_pieces(b, mv),
          black_pieces |-> IF is_white THEN captured_pieces(b, mv)
                                       ELSE moved_pieces(b, mv),
          side_to_move |-> opposite(b.side_to_move),
          castling_rights |-> updated_castling_rights(b, mv),
          en_passant_square |-> updated_en_passant_square(b, mv),
          halfmove_clock |-> updated_halfmove_clock(b, mv),
          fullmove_number |-> updated_fullmove_number(b, mv) ]

\* Board::get_piece_at: Option<(Piece, Color)>, white bitboards scanned first
Board_get_piece_at(b, square) ==
    IF any_piece(b.white_pieces, square)
    THEN Some(<<piece_of_index(first_index_at(b.white_pieces, square)), "White">>)
    ELSE IF any_piece(b.black_pieces, square)
    THEN Some(<<piece_of_index(first_index_at(b.black_pieces, square)), "Black">>)
    ELSE None

----------------------------------------------------------------------------
(* movegen.rs: attack queries *)

on_board(rank, file) == rank >= 0 /\ rank < 8 /\ file >= 0 /\ file < 8

\* the squares a ray from (rank, file) in direction (dr, df) covers up to and
\* including the first occupied one (inner loop of get_bishop_attacks and
\* get_rook_attacks)
RECURSIVE ray_attacks(_, _, _, _, _)
ray_attacks(occupied, rank, file, dr, df) ==
    LET r == rank + dr
        f == file + df
    IN  IF ~on_board(r, f) THEN {}
        ELSE IF (r * 8 + f) \in occupied THEN {r * 8 + f}
        ELSE {r * 8 + f} \cup ray_attacks(occupied, r, f, dr, df)

diagonal_directions == <<<<1, 1>>, <<1, -1>>, <<-1, 1>>, <<-1, -1>>>>

orthogonal_directions == <<<<1, 0>>, <<-1, 0>>, <<0, 1>>, <<0, -1>>>>

get_bishop_attacks(square, occupied) ==
    UNION {ray_attacks(occupied, square \div 8, square % 8,
                       diagonal_directions[d][1], diagonal_directions[d][2]) :
           d \in 1..4}

get_rook_attacks(square, occupied) ==
    UNION {ray_attacks(occupied, square \div 8, square % 8,
                       orthogonal_directions[d][1], orthogonal_directions[d][2]) :
           d \in 1..4}

\* one ray of the slider loops of is_square_under_attack: TRUE when the walk
\* meets an attacking slider before any other piece
RECURSIVE ray_meets_slider(_, _, _, _, _, _)
ray_meets_slider(sliders, occupied, rank, file, dr, df) ==
    LET r == rank + dr
        f == file + df
    IN  IF ~on_board(r, f) THEN FALSE
        ELSE IF (r * 8 + f) \in sliders THEN TRUE
        ELSE IF (r * 8 + f) \in occupied THEN FALSE
        ELSE ray_meets_slider(sliders, occupied, r, f, dr, df)

\* the squares is_square_under_attack looks at for an attacking pawn
pawn_attack_squares(square, attacker_color) ==
    LET square_rank == square \div 8
        square_file == square % 8
    IN  IF attacker_color = "White"
        THEN (IF square_rank < 7
              THEN (IF square_file > 0 THEN {square + 7} ELSE {})
                   \cup (IF square_file < 7 THEN {square + 9} ELSE {})
              ELSE {})
        ELSE (IF square_rank > 0
              THEN (IF square_file > 0 THEN {square - 9} ELSE {})
                   \cup (IF square_file < 7 THEN {square - 7} ELSE {})
              ELSE {})

knight_moves_attack ==
    <<<<-2, -1>>, <<-2, 1>>, <<-1, -2>>, <<-1, 2>>,
      <<1, -2>>, <<1, 2>>, <<2, -1>>, <<2, 1>>>>

king_moves_attack ==
    <<<<-1, -1>>, <<-1, 0>>, <<-1, 1>>, <<0, -1>>,
      <<0, 1>>, <<1, -1>>, <<1, 0>>, <<1, 1>>>>

\* the bitboard of the on-board squares one step of `steps` away from square
step_attacks(square, steps) ==
    {((square \div 8) + steps[k][1]) * 8 + ((square % 8) + steps[k][2]) :
       k \in {j \in 1..Len(steps) :
                on_board((square \div 8) + steps[j][1], (square % 8) + steps[j][2])}}

is_square_under_attack(b, square, attacker_color) ==
    LET attacker_pieces == pieces_of(b, attacker_color)
        occupied == occupied_of(b)
        square_rank == square \div 8
        square_file == square % 8
    IN  \/ pawn_attack_squares(square, attacker_color) \cap attacker_pieces[0] # {}
        \/ step_attacks(square, knight_moves_attack) \cap attacker_pieces[1] # {}
        \/ step_attacks(square, king_moves_attack) \cap attacker_pieces[5] # {}
        \/ \E d \in 1..4 :
             ray_meets_slider(attacker_pieces[2] \cup attacker_pieces[4], occupied,
                              square_rank, square_file,
                              diagonal_directions[d][1], diagonal_directions[d][2])
        \/ \E d \in 1..4 :
             ray_meets_slider(attacker_pieces[3] \cup attacker_pieces[4], occupied,
                              square_rank, square_file,
                              orthogonal_directions[d][1], orthogonal_directions[d][2])

is_king_in_check(b, color) ==
    LET king_pieces == pieces_of(b, color)[5]
    IN  IF king_pieces # {}
        THEN is_square_under_attack(b, Min(king_pieces), opposite(color))
        ELSE FALSE

----------------------------------------------------------------------------
(* movegen.rs: MoveGenerator::generate_moves *)

\* MoveGenerator::get_piece_at: the kind on a square, white scanned first,
\* Pawn when the square is empty
get_piece_at(b, square) ==
    IF any_piece(b.white_pieces, square)
    THEN piece_of_index(first_index_at(b.white_pieces, square))
    ELSE IF any_piece(b.black_pieces, square)
    THEN piece_of_index(first_index_at(b.black_pieces, square))
    ELSE "Pawn"

\* `for x in 0..64 { if (bb >> x) & 1 != 0 { ... } }`: the moves f[x] of the
\* squares x of bitboard S, in ascending order of x
RECURSIVE concat_in_order(_, _)
concat_in_order(f, S) ==
    IF S = {} THEN <<>>
    ELSE LET m == Min(S) IN f[m] \o concat_in_order(f, S \ {m})

\* [Piece::Queen, Piece::Rook, Piece::Bishop, Piece::Knight]
promotion_kinds == <<"Queen", "Rook", "Bishop", "Knight">>

\* move_or_capture with a seeded fault: a capture records the kind of the
\* capturing piece
move_or_capture_own_kind(b, from, to, piece) ==
    LET is_capture == any_piece(pieces_of(b, opposite(b.side_to_move)), to)
        is_empty == ~any_piece(pieces_of(b, b.side_to_move), to)
    IN  IF is_capture
        THEN <<[Move_new(from, to, piece) EXCEPT !.captured_piece = Some(piece)]>>
        ELSE IF is_empty THEN <<Move_new(from, to, piece)>>
        ELSE <<>>

\* a move of `piece` to `to`, with captured_piece set when an opponent piece
\* stands there, when `to` holds an opponent piece or no own piece
move_or_capture(b, from, to, piece) ==
    LET is_capture == any_piece(pieces_of(b, opposite(b.side_to_move)), to)
        is_empty == ~any_piece(pieces_of(b, b.side_to_move), to)
    IN  IF is_capture
        THEN <<[Move_new(from, to, piece) EXCEPT
                  !.captured_piece = Some(get_piece_at(b, to))]>>
        ELSE IF is_empty THEN <<Move_new(from, to, piece)>>
        ELSE <<>>

\* pawn_single_push with a seeded fault: a push to the last rank is a plain
\* move without a promotion
pawn_single_push_unpromoted(b, from) ==
    LET is_white == b.side_to_move = "White"
        to == IF is_white THEN from + 8 ELSE from - 8
        some_to == IF is_white THEN to < 64 /\ from \div 8 < 7
                               ELSE to >= 0 /\ from \div 8 > 0
    IN  IF some_to /\ to \notin occupied_of(b)
        THEN <<Move_new(from, to, "Pawn")>>
        ELSE <<>>

\* Single push
pawn_single_push(b, from) ==
    LET is_white == b.side_to_move = "White"
        to == IF is_white THEN from + 8 ELSE from - 8
        some_to == IF is_white THEN to < 64 /\ from \div 8 < 7
                               ELSE to >= 0 /\ from \div 8 > 0
    IN  IF some_to /\ to \notin occupied_of(b)
        THEN (IF (is_white /\ to >= 56) \/ (~is_white /\ to < 8)
              THEN [k \in 1..4 |-> Move_new_promotion(from, to, promotion_kinds[k])]
              ELSE <<Move_new(from, to, "Pawn")>>)
        ELSE <<>>

\* pawn_double_push with a seeded fault: the intermediate square is not
\* tested
pawn_double_push_jumps(b, from) ==
    LET is_white == b.side_to_move = "White"
        to == IF is_white THEN from + 16 ELSE from - 16
        some_to == IF is_white THEN to < 64 /\ from \div 8 = 1
                               ELSE to >= 0 /\ from \div 8 = 6
    IN  IF some_to /\ to \notin occupied_of(b)
        THEN <<Move_new(from, to, "Pawn")>>
        ELSE <<>>

\* Double push
pawn_double_push(b, from) ==
    LET is_white == b.side_to_move = "White"
        to == IF is_white THEN from + 16 ELSE from - 16
        some_to == IF is_white THEN to < 64 /\ from \div 8 = 1
                               ELSE to >= 0 /\ from \div 8 = 6
        intermediate == IF is_white THEN from + 8 ELSE from - 8
    IN  IF some_to /\ to \notin occupied_of(b) /\ intermediate \notin occupied_of(b)
        THEN <<Move_new(from, to, "Pawn")>>
        ELSE <<>>

\* Captures: one of the two capture squares
pawn_capture(b, from, rank, file) ==
    LET is_white == b.side_to_move = "White"
        to == rank * 8 + file
    IN  IF on_board(rank, file)
           /\ any_piece(pieces_of(b, opposite(b.side_to_move)), to)
        THEN (IF (is_white /\ rank = 7) \/ (~is_white /\ rank = 0)
              THEN [k \in 1..4 |->
                      Move_new_promotion_capture(from, to, get_piece_at(b, to),
                                                 promotion_kinds[k])]
              ELSE <<[Move_new(from, to, "Pawn") EXCEPT
                        !.captured_piece = Some(get_piece_at(b, to))]>>)
        ELSE <<>>

pawn_captures(b, from) ==
    LET dir == IF b.side_to_move = "White" THEN 1 ELSE -1
        from_rank == from \div 8
        from_file == from % 8
    IN  pawn_capture(b, from, from_rank + dir, from_file - 1)
        \o pawn_capture(b, from, from_rank + dir, from_file + 1)

\* En passant
pawn_en_passant(b, from) ==
    IF b.en_passant_square = None THEN <<>>
    ELSE
    LET is_white == b.side_to_move = "White"
        ep_square == unwrap(b.en_passant_square)
        ep_rank == ep_square \div 8
        ep_file == ep_square % 8
        from_rank == from \div 8
        from_file == from % 8
        captured_pawn_square == IF is_white THEN ep_square - 8 ELSE ep_square + 8
        has_pawn_to_capture ==
            captured_pawn_square \in pieces_of(b, opposite(b.side_to_move))[0]
    IN  IF /\ \/ (is_white /\ ep_rank = 5 /\ from_rank = 4)
              \/ (~is_white /\ ep_rank = 2 /\ from_rank = 3)
           /\ Abs(ep_file - from_file) = 1
           /\ has_pawn_to_capture
        THEN <<Move_new_en_passant(from, ep_square, "Pawn")>>
        ELSE <<>>

knight_moves ==
    <<<<2, 1>>, <<2, -1>>, <<-2, 1>>, <<-2, -1>>,
      <<1, 2>>, <<1, -2>>, <<-1, 2>>, <<-1, -2>>>>

king_moves ==
    <<<<1, 0>>, <<1, 1>>, <<0, 1>>, <<-1, 1>>,
      <<-1, 0>>, <<-1, -1>>, <<0, -1>>, <<1, -1>>>>

\* the knight and king loops: one candidate per step that stays on the board
step_moves(b, from, piece, steps) ==
    concat_in_order(
        [k \in 1..Len(steps) |->
            LET rank == (from \div 8) + steps[k][1]
                file == (from % 8) + steps[k][2]
            IN  IF on_board(rank, file)
                THEN move_or_capture(b, from, rank * 8 + file, piece)
                ELSE <<>>],
        1..Len(steps))

\* the bishop, rook and queen loops: `for to in 0..64` over the attack set
slider_moves(b, from, piece, attacks) ==
    concat_in_order([to \in attacks |-> move_or_capture(b, from, to, piece)],
                    attacks)

\* Castling
castling_moves(b) ==
    LET occupied == occupied_of(b)
    IN  IF b.side_to_move = "White"
        THEN (IF /\ 1 \in b.castling_rights
                 /\ 7 \in b.white_pieces[3]
                 /\ occupied \cap {5, 6} = {}
                 /\ ~is_square_under_attack(b, 4, "Black")
                 /\ ~is_square_under_attack(b, 5, "Black")
                 /\ ~is_square_under_attack(b, 6, "Black")
              THEN <<Move_new_castling(4, 6, 7, 5)>> ELSE <<>>)
             \o
             (IF /\ 2 \in b.castling_rights
                 /\ 0 \in b.white_pieces[3]
                 /\ occupied \cap {1, 2, 3} = {}
                 /\ ~is_square_under_attack(b, 4, "Black")
                 /\ ~is_square_under_attack(b, 3, "Black")
                 /\ ~is_square_under_attack(b, 2, "Black")
              THEN <<Move_new_castling(4, 2, 0, 3)>> ELSE <<>>)
        ELSE (IF /\ 4 \in b.castling_rights
                 /\ 63 \in b.black_pieces[3]
                 /\ occupied \cap {61, 62} = {}
                 /\ ~is_square_under_attack(b, 60, "White")
                 /\ ~is_square_under_attack(b, 61, "White")
                 /\ ~is_square_under_attack(b, 62, "White")
              THEN <<Move_new_castling(60, 62, 63, 61)>> ELSE <<>>)
             \o
             (IF /\ 8 \in b.castling_rights
                 /\ 56 \in b.black_pieces[3]
                 /\ occupied \cap {57, 58, 59} = {}
                 /\ ~is_square_under_attack(b, 60, "White")
                 /\ ~is_square_under_attack(b, 59, "White")
                 /\ ~is_square_under_attack(b, 58, "White")
              THEN <<Move_new_castling(60, 58, 56, 59)>> ELSE <<>>)

\* every move generate_moves builds, in its order, before the legality filter
pseudo_legal_moves(b) ==
    LET pieces == pieces_of(b, b.side_to_move)
        occupied == occupied_of(b)
    IN  concat_in_order(
            [from \in pieces[0] |->
                pawn_single_push(b, from) \o pawn_double_push(b, from)
                \o pawn_captures(b, from) \o pawn_en_passant(b, from)],
            pieces[0])
        \o concat_in_order(
            [from \in pieces[1] |-> step_moves(b, from, "Knight", knight_moves)],
            pieces[1])
        \o concat_in_order(
            [from \in pieces[2] |->
                slider_moves(b, from, "Bishop", get_bishop_attacks(from, occupied))],
            pieces[2])
        \o concat_in_order(
            [from \in pieces[3] |->
                slider_moves(b, from, "Rook", get_rook_attacks(from, occupied))],
            pieces[3])
        \o concat_in_order(
            [from \in pieces[4] |->
                slider_moves(b, from, "Queen",
                             get_bishop_attacks(from, occupied)
                             \cup get_rook_attacks(from, occupied))],
            pieces[4])
        \o concat_in_order(
            [from \in pieces[5] |->
                step_moves(b, from, "King", king_moves) \o castling_moves(b)],
            pieces[5])

\* "Make the move and check if the king is in check": the test before each push
leaves_king_safe(b, mv) == ~is_king_in_check(make_move(b, mv), b.side_to_move)

generate_moves(b) ==
    SelectSeq(pseudo_legal_moves(b), LAMBDA mv : leaves_king_safe(b, mv))

\* lib.rs: the perft helper of test_perft_initial_position
\* the squares strictly between from and to, along the step toward to
squares_between(from, to) ==
    LET rank_diff == (to \div 8) - (from \div 8)
        file_diff == (to % 8) - (from % 8)
        rank_step == IF rank_diff > 0 THEN 1 ELSE IF rank_diff < 0 THEN -1 ELSE 0
        file_step == IF file_diff > 0 THEN 1 ELSE IF file_diff < 0 THEN -1 ELSE 0
        steps == IF Abs(rank_diff) > Abs(file_diff)
                 THEN Abs(rank_diff) ELSE Abs(file_diff)
    IN  {from + k * (rank_step * 8 + file_step) : k \in 1..(steps - 1)}

\* is_move_valid, "Check if the move is legal for the piece type"
is_legal_for_piece(b, mv) ==
    LET is_white == b.side_to_move = "White"
        occupied == occupied_of(b)
        opponent_pieces == pieces_of(b, opposite(b.side_to_move))
        rank_diff == (mv.to \div 8) - (mv.from \div 8)
        file_diff == (mv.to % 8) - (mv.from % 8)
        direction == IF is_white THEN 1 ELSE -1
        path_is_clear == squares_between(mv.from, mv.to) \cap occupied = {}
        castling_mask ==
            IF is_white THEN (IF mv.to > mv.from THEN 1 ELSE 2)
            ELSE (IF mv.to > mv.from THEN 4 ELSE 8)
        rank == IF is_white THEN 0 ELSE 7
        between_king_and_rook ==
            IF mv.to > mv.from THEN {rank * 8 + file : file \in 5..6}
            ELSE {rank * 8 + file : file \in 1..3}
        king_passes ==
            IF mv.to > mv.from THEN {rank * 8 + file : file \in 4..6}
            ELSE {rank * 8 + file : file \in 2..4}
    IN  CASE mv.piece = "Pawn" ->
               IF file_diff = 0 /\ rank_diff = direction
               THEN mv.to \notin occupied
               ELSE IF /\ file_diff = 0 /\ rank_diff = 2 * direction
                       /\ \/ (is_white /\ mv.from \div 8 = 1)
                          \/ (~is_white /\ mv.from \div 8 = 6)
               THEN /\ mv.to \notin occupied
                    /\ (IF is_white THEN mv.from + 8 ELSE mv.from - 8)
                           \notin occupied
               ELSE IF Abs(file_diff) = 1 /\ rank_diff = direction
               THEN IF mv.is_en_passant
                    THEN /\ b.en_passant_square = Some(mv.to)
                         /\ (IF is_white THEN mv.to - 8 ELSE mv.to + 8)
                                \in opponent_pieces[0]
                    ELSE any_piece(opponent_pieces, mv.to)
               ELSE FALSE
          [] mv.piece = "Knight" ->
               \/ (Abs(rank_diff) = 2 /\ Abs(file_diff) = 1)
               \/ (Abs(rank_diff) = 1 /\ Abs(file_diff) = 2)
          [] mv.piece = "Bishop" ->
               Abs(rank_diff) = Abs(file_diff) /\ path_is_clear
          [] mv.piece = "Rook" ->
               ~(rank_diff # 0 /\ file_diff # 0) /\ path_is_clear
          [] mv.piece = "Queen" ->
               /\ ~(rank_diff # 0 /\ file_diff # 0
                    /\ Abs(rank_diff) # Abs(file_diff))
               /\ path_is_clear
          [] mv.piece = "King" ->
               IF mv.is_castling
               THEN /\ castling_mask \in b.castling_rights
                    /\ between_king_and_rook \cap occupied = {}
                    /\ \A square \in king_passes :
                           ~is_square_under_attack(b, square,
                                                   opposite(b.side_to_move))
               ELSE Abs(rank_diff) <= 1 /\ Abs(file_diff) <= 1

\* MoveGenerator::is_move_valid
is_move_valid(b, mv) ==
    LET pieces == pieces_of(b, b.side_to_move)
    IN  /\ mv.from \in pieces[piece_index(mv.piece)]
        /\ ~any_piece(pieces, mv.to)
        /\ is_legal_for_piece(b, mv)
        /\ ~is_king_in_check(make_move(b, mv), b.side_to_move)

RECURSIVE perft(_, _)
perft(b, depth) ==
    IF depth = 0 THEN 1
    ELSE LET moves == generate_moves(b)
         IN  IF depth = 1 THEN Len(moves)
             ELSE LET RECURSIVE sum(_)
                      sum(k) == IF k = 0 THEN 0
                                ELSE perft(make_move(b, moves[k]), depth - 1) + sum(k - 1)
                  IN  sum(Len(moves))

----------------------------------------------------------------------------
(* movegen.rs: get_game_state and its helpers.  A u64 hash is modelled as  *)
(* its four 16-bit limbs, least significant first, so that wrapping_mul    *)
(* and wrapping_add are computed exactly modulo 2^64.                      *)

Limb == 2 ^ 16

RECURSIVE sum_of_bits(_, _)
\* the value of the bits of bitboard S that lie in lo..lo+15, shifted down
sum_of_bits(S, lo) ==
    IF S = {} THEN 0
    ELSE LET s == Min(S)
         IN  (IF s >= lo /\ s < lo + 16 THEN 2 ^ (s - lo) ELSE 0)
             + sum_of_bits(S \ {s}, lo)

\* a bitboard as a u64
u64_of_bitboard(S) == [k \in 1..4 |-> sum_of_bits(S, 16 * (k - 1))]

\* `x as u64` for a small x
u64_of_small(x) == <<x, 0, 0, 0>>

\* u64::wrapping_mul by a small factor
wrapping_mul(h, p) ==
    LET t1 == h[1] * p
        t2 == h[2] * p + (t1 \div Limb)
        t3 == h[3] * p + (t2 \div Limb)
        t4 == h[4] * p + (t3 \div Limb)
    IN  <<t1 % Limb, t2 % Limb, t3 % Limb, t4 % Limb>>

\* u64::wrapping_add
wrapping_add(h, x) ==
    LET t1 == h[1] + x[1]
        t2 == h[2] + x[2] + (t1 \div Limb)
        t3 == h[3] + x[3] + (t2 \div Limb)
        t4 == h[4] + x[4] + (t3 \div Limb)
    IN  <<t1 % Limb, t2 % Limb, t3 % Limb, t4 % Limb>>

PRIME_NUMBERS == <<2, 3, 5, 7, 11, 13, 17, 19, 23, 29, 31, 37, 41, 43, 47>>

RECURSIVE hash_pieces(_, _, _, _)
\* `for (piece_type, &bitboard) in pieces.iter().enumerate()` from piece_type on
hash_pieces(hash, pieces, offset, piece_type) ==
    IF piece_type > 5 THEN hash
    ELSE hash_pieces(
             wrapping_add(wrapping_mul(hash, PRIME_NUMBERS[piece_type + offset + 1]),
                          u64_of_bitboard(pieces[piece_type])),
             pieces, offset, piece_type + 1)

\* `board.castling_rights as u64`: the value of the set bits
castling_rights_value(rights) ==
    (IF 1 \in rights THEN 1 ELSE 0) + (IF 2 \in rights THEN 2 ELSE 0)
    + (IF 4 \in rights THEN 4 ELSE 0) + (IF 8 \in rights THEN 8 ELSE 0)

\* MoveGenerator::get_position_hash
get_position_hash(b) ==
    LET white == hash_pieces(u64_of_small(0), b.white_pieces, 0, 0)
        black == hash_pieces(white, b.black_pieces, 6, 0)
        rights == wrapping_add(wrapping_mul(black, PRIME_NUMBERS[13]),
                               u64_of_small(castling_rights_value(b.castling_rights)))
        ep == IF b.en_passant_square # None
              THEN wrapping_add(wrapping_mul(rights, PRIME_NUMBERS[14]),
                                u64_of_small(unwrap(b.en_passant_square)))
              ELSE rights
    IN  wrapping_add(wrapping_mul(ep, PRIME_NUMBERS[15]),
                     u64_of_small(IF b.side_to_move = "White" THEN 0 ELSE 1))

\* is_threefold_repetition: repetition_count starts at 1 and the loop returns
\* true at the second past board with the current hash; the Move of each
\* history pair is never read, so the history is modelled as its boards
is_threefold_repetition(b, history) ==
    Cardinality({k \in 1..Len(history) :
                    get_position_hash(history[k]) = get_position_hash(b)}) >= 2

\* count_pieces: the sum of count_ones over the six bitboards of a colour
count_pieces(b, c) ==
    LET pieces == pieces_of(b, c)
    IN  Cardinality(pieces[0]) + Cardinality(pieces[1]) + Cardinality(pieces[2])
        + Cardinality(pieces[3]) + Cardinality(pieces[4]) + Cardinality(pieces[5])

\* count_minor_pieces: (pieces[1] | pieces[2]).count_ones()
count_minor_pieces(b, c) ==
    Cardinality(pieces_of(b, c)[1] \cup pieces_of(b, c)[2])

\* count_bishops
count_bishops(b, c) == Cardinality(pieces_of(b, c)[2])

\* find_bishop_square: trailing_zeros of the bishops' bitboard
find_bishop_square(b, c) ==
    IF pieces_of(b, c)[2] # {} THEN Some(Min(pieces_of(b, c)[2])) ELSE None

\* `(sq / 8 + sq % 8) % 2 == 1`
is_dark(sq) == ((sq \div 8) + (sq % 8)) % 2 = 1

\* is_insufficient_material with a seeded fault: the bishops' square colours
\* are not compared
is_insufficient_material_any_bishops(b) ==
    LET white_pieces == count_pieces(b, "White")
        black_pieces == count_pieces(b, "Black")
        white_minors == count_minor_pieces(b, "White")
        black_minors == count_minor_pieces(b, "Black")
        white_bishops == count_bishops(b, "White")
        black_bishops == count_bishops(b, "Black")
    IN  \/ white_pieces = 1 /\ black_pieces = 1
        \/ (white_pieces = 2 /\ white_bishops = 1 /\ black_pieces = 1)
        \/ (black_pieces = 2 /\ black_bishops = 1 /\ white_pieces = 1)
        \/ (white_pieces = 2 /\ white_minors = 1 /\ black_pieces = 1)
        \/ (black_pieces = 2 /\ black_minors = 1 /\ white_pieces = 1)
        \/ /\ white_pieces = 2 /\ black_pieces = 2
           /\ white_bishops = 1 /\ black_bishops = 1

is_insufficient_material(b) ==
    LET white_pieces == count_pieces(b, "White")
        black_pieces == count_pieces(b, "Black")
        white_minors == count_minor_pieces(b, "White")
        black_minors == count_minor_pieces(b, "Black")
        white_bishops == count_bishops(b, "White")
        black_bishops == count_bishops(b, "Black")
        white_bishop_square == find_bishop_square(b, "White")
        black_bishop_square == find_bishop_square(b, "Black")
    IN  \/ white_pieces = 1 /\ black_pieces = 1
        \/ (white_pieces = 2 /\ white_bishops = 1 /\ black_pieces = 1)
        \/ (black_pieces = 2 /\ black_bishops = 1 /\ white_pieces = 1)
        \/ (white_pieces = 2 /\ white_minors = 1 /\ black_pieces = 1)
        \/ (black_pieces = 2 /\ black_minors = 1 /\ white_pieces = 1)
        \/ /\ white_pieces = 2 /\ black_pieces = 2
           /\ white_bishops = 1 /\ black_bishops = 1
           /\ white_bishop_square # None /\ black_bishop_square # None
           /\ is_dark(unwrap(white_bishop_square))
                 = is_dark(unwrap(black_bishop_square))

\* GameState: a variant is the sequence of its name and its fields
Ongoing == <<"Ongoing">>

Checkmate(winner) == <<"Checkmate", winner>>

Stalemate == <<"Stalemate">>

ThreefoldRepetition == <<"ThreefoldRepetition">>

FiftyMoveRule == <<"FiftyMoveRule">>

InsufficientMaterial == <<"InsufficientMaterial">>

get_game_state(b, history) ==
    IF is_insufficient_material(b) THEN InsufficientMaterial
    ELSE IF b.halfmove_clock >= 50 THEN FiftyMoveRule
    ELSE IF is_threefold_repetition(b, history) THEN ThreefoldRepetition
    ELSE IF Len(generate_moves(b)) = 0
    THEN (IF is_king_in_check(b, b.side_to_move)
          THEN Checkmate(opposite(b.side_to_move))
          ELSE Stalemate)
    ELSE Ongoing

----------------------------------------------------------------------------
(* transposition.rs: TranspositionTable.  The HashMap is a function from   *)
(* the hashes it holds to their entries.                                   *)

NodeType == {"Exact", "LowerBound", "UpperBound"}

TranspositionEntry(hash, depth, score, node_type, best_move) ==
    [hash |-> hash, depth |-> depth, score |-> score, node_type |-> node_type,
     best_move |-> best_move]

\* TranspositionTable::new
TranspositionTable_new(size) == [table |-> <<>>, size |-> size]

\* HashMap::insert
map_insert(table, key, value) ==
    [k \in DOMAIN table \cup {key} |-> IF k = key THEN value ELSE table[k]]

\* HashMap::remove
map_remove(table, key) == [k \in DOMAIN table \ {key} |-> table[k]]

\* store needs no key to remove, or has one: `self.table.keys().next().unwrap()`
\* is Some(oldest_key) for a key of the map, whichever the map iterates first
may_store(t, oldest_key) ==
    IF Cardinality(DOMAIN t.table) >= t.size
    THEN oldest_key # None /\ unwrap(oldest_key) \in DOMAIN t.table
    ELSE oldest_key = None

\* store with a seeded fault: a full table is not made to give up an entry
store_without_eviction(t, hash, entry, oldest_key) ==
    [t EXCEPT !.table = map_insert(t.table, hash, entry)]

\* TranspositionTable::store, oldest_key being the key the full map yields
store(t, hash, entry, oldest_key) ==
    IF Cardinality(DOMAIN t.table) >= t.size
    THEN [t EXCEPT !.table =
              map_insert(map_remove(t.table, unwrap(oldest_key)), hash, entry)]
    ELSE [t EXCEPT !.table = map_insert(t.table, hash, entry)]

\* probe with a seeded fault: the depth of the entry is not compared
probe_any_depth(t, hash, depth, alpha, beta) ==
    IF hash \in DOMAIN t.table
    THEN LET entry == t.table[hash]
         IN  CASE entry.node_type = "Exact" -> Some(entry.score)
               [] entry.node_type = "LowerBound" ->
                     IF entry.score >= beta THEN Some(entry.score) ELSE None
               [] entry.node_type = "UpperBound" ->
                     IF entry.score <= alpha THEN Some(entry.score) ELSE None
    ELSE None

\* TranspositionTable::probe
probe(t, hash, depth, alpha, beta) ==
    IF hash \in DOMAIN t.table
    THEN LET entry == t.table[hash]
         IN  IF entry.depth >= depth
             THEN CASE entry.node_type = "Exact" -> Some(entry.score)
                    [] entry.node_type = "LowerBound" ->
                          IF entry.score >= beta THEN Some(entry.score) ELSE None
                    [] entry.node_type = "UpperBound" ->
                          IF entry.score <= alpha THEN Some(entry.score) ELSE None
             ELSE None
    ELSE None

\* TranspositionTable::get_best_move
get_best_move(t, hash) ==
    IF hash \in DOMAIN t.table THEN t.table[hash].best_move ELSE None

----------------------------------------------------------------------------
(* evaluation.rs: Evaluator.  The position bonus tables are indexed        *)
(* [rank][file] from rank 0, file 0, for both colours alike.               *)

pawn_value == 100

knight_value == 320

bishop_value == 330

rook_value == 500

queen_value == 900

king_value == 20000

pawn_position_bonus ==
    <<<<0, 0, 0, 0, 0, 0, 0, 0>>,
      <<50, 50, 50, 50, 50, 50, 50, 50>>,
      <<10, 10, 20, 30, 30, 20, 10, 10>>,
      <<5, 5, 10, 25, 25, 10, 5, 5>>,
      <<0, 0, 0, 20, 20, 0, 0, 0>>,
      <<5, -5, -10, 0, 0, -10, -5, 5>>,
      <<5, 10, 10, -20, -20, 10, 10, 5>>,
      <<0, 0, 0, 0, 0, 0, 0, 0>>>>

knight_position_bonus ==
    <<<<-50, -40, -30, -30, -30, -30, -40, -50>>,
      <<-40, -20, 0, 0, 0, 0, -20, -40>>,
      <<-30, 0, 10, 15, 15, 10, 0, -30>>,
      <<-30, 5, 15, 20, 20, 15, 5, -30>>,
      <<-30, 0, 15, 20, 20, 15, 0, -30>>,
      <<-30, 5, 10, 15, 15, 10, 5, -30>>,
      <<-40, -20, 0, 5, 5, 0, -20, -40>>,
      <<-50, -40, -30, -30, -30, -30, -40, -50>>>>

bishop_position_bonus ==
    <<<<-20, -10, -10, -10, -10, -10, -10, -20>>,
      <<-10, 0, 0, 0, 0, 0, 0, -10>>,
      <<-10, 0, 5, 10, 10, 5, 0, -10>>,
      <<-10, 5, 5, 10, 10, 5, 5, -10>>,
      <<-10, 0, 10, 10, 10, 10, 0, -10>>,
      <<-10, 10, 10, 10, 10, 10, 10, -10>>,
      <<-10, 5, 0, 0, 0, 0, 5, -10>>,
      <<-20, -10, -10, -10, -10, -10, -10, -20>>>>

rook_position_bonus ==
    <<<<0, 0, 0, 0, 0, 0, 0, 0>>,
      <<5, 10, 10, 10, 10, 10, 10, 5>>,
      <<-5, 0, 0, 0, 0, 0, 0, -5>>,
      <<-5, 0, 0, 0, 0, 0, 0, -5>>,
      <<-5, 0, 0, 0, 0, 0, 0, -5>>,
      <<-5, 0, 0, 0, 0, 0, 0, -5>>,
      <<-5, 0, 0, 0, 0, 0, 0, -5>>,
      <<0, 0, 0, 5, 5, 0, 0, 0>>>>

queen_position_bonus ==
    <<<<-20, -10, -10, -5, -5, -10, -10, -20>>,
      <<-10, 0, 0, 0, 0, 0, 0, -10>>,
      <<-10, 0, 5, 5, 5, 5, 0, -10>>,
      <<-5, 0, 5, 5, 5, 5, 0, -5>>,
      <<0, 0, 5, 5, 5, 5, 0, -5>>,
      <<-10, 5, 5, 5, 5, 5, 0, -10>>,
      <<-10, 0, 5, 0, 0, 0, 0, -10>>,
      <<-20, -10, -10, -5, -5, -10, -10, -20>>>>

king_position_bonus ==
    <<<<-30, -40, -40, -50, -50, -40, -40, -30>>,
      <<-30, -40, -40, -50, -50, -40, -40, -30>>,
      <<-30, -40, -40, -50, -50, -40, -40, -30>>,
      <<-30, -40, -40, -50, -50, -40, -40, -30>>,
      <<-20, -30, -30, -40, -40, -30, -30, -20>>,
      <<-10, -20, -20, -20, -20, -20, -20, -10>>,
      <<20, 20, 0, 0, 0, 0, 20, 20>>,
      <<20, 30, 10, 0, 0, 10, 30, 20>>>>

king_endgame_position_bonus ==
    <<<<-50, -40, -30, -20, -20, -30, -40, -50>>,
      <<-30, -20, -10, 0, 0, -10, -20, -30>>,
      <<-30, -10, 20, 30, 30, 20, -10, -30>>,
      <<-30, -10, 30, 40, 40, 30, -10, -30>>,
      <<-30, -10, 30, 40, 40, 30, -10, -30>>,
      <<-30, -10, 20, 30, 30, 20, -10, -30>>,
      <<-30, -30, 0, 0, 0, 0, -30, -30>>,
      <<-50, -30, -30, -30, -30, -30, -30, -50>>>>

pawn_mobility_weight == 1

knight_mobility_weight == 2

bishop_mobility_weight == 3

rook_mobility_weight == 2

queen_mobility_weight == 1

king_mobility_weight == 1

doubled_pawn_penalty == -10

isolated_pawn_penalty == -20

passed_pawn_bonus == 20

connected_pawn_bonus == 10

pawn_shield_bonus == 5

open_file_penalty == -15

semi_open_file_penalty == -10

RECURSIVE sum_over(_, _)
\* the sum of f[x] over the x of a finite set S
sum_over(f, S) ==
    IF S = {} THEN 0
    ELSE LET x == Min(S) IN f[x] + sum_over(f, S \ {x})

\* Evaluator::get_piece_value
Evaluator_get_piece_value(piece, rank, file, endgame) ==
    LET base_value ==
            CASE piece = "Pawn" -> pawn_value [] piece = "Knight" -> knight_value
              [] piece = "Bishop" -> bishop_value [] piece = "Rook" -> rook_value
              [] piece = "Queen" -> queen_value [] piece = "King" -> king_value
        position_bonus ==
            CASE piece = "Pawn" -> pawn_position_bonus[rank + 1][file + 1]
              [] piece = "Knight" -> knight_position_bonus[rank + 1][file + 1]
              [] piece = "Bishop" -> bishop_position_bonus[rank + 1][file + 1]
              [] piece = "Rook" -> rook_position_bonus[rank + 1][file + 1]
              [] piece = "Queen" -> queen_position_bonus[rank + 1][file + 1]
              [] piece = "King" ->
                    IF endgame
                    THEN king_endgame_position_bonus[rank + 1][file + 1]
                    ELSE king_position_bonus[rank + 1][file + 1]
    IN  base_value + position_bonus

\* the squares on which Board::get_piece_at finds a piece of the given kinds
\* and colour
squares_holding(b, kinds, c) ==
    {sq \in 0..63 :
        /\ Board_get_piece_at(b, sq) # None
        /\ unwrap(Board_get_piece_at(b, sq))[1] \in kinds
        /\ unwrap(Board_get_piece_at(b, sq))[2] = c}

\* Evaluator::is_endgame: at most two queens and rooks on the board
is_endgame(b) ==
    Cardinality(squares_holding(b, {"Queen", "Rook"}, "White"))
    + Cardinality(squares_holding(b, {"Queen", "Rook"}, "Black")) <= 2

\* "Evaluate material and position for each piece"
evaluate_material(b) ==
    LET endgame == is_endgame(b)
        value == [sq \in 0..63 |->
            LET at == Board_get_piece_at(b, sq)
            IN  IF at = None THEN 0
                ELSE LET v == Evaluator_get_piece_value(
                                  unwrap(at)[1], sq \div 8, sq % 8, endgame)
                     IN  IF unwrap(at)[2] = "White" THEN v ELSE -v]
    IN  sum_over(value, 0..63)

\* Evaluator::evaluate_mobility
evaluate_mobility(b) ==
    LET weighed(moves) ==
            LET piece_moves == [i \in 0..5 |->
                    Cardinality({k \in 1..Len(moves) :
                                    piece_index(moves[k].piece) = i})]
                score == piece_moves[0] * pawn_mobility_weight
                         + piece_moves[1] * knight_mobility_weight
                         + piece_moves[2] * bishop_mobility_weight
                         + piece_moves[3] * rook_mobility_weight
                         + piece_moves[4] * queen_mobility_weight
                         + piece_moves[5] * king_mobility_weight
            IN  IF b.side_to_move = "Black" THEN -score ELSE score
    IN  weighed(generate_moves(b))

\* Evaluator::evaluate_pawn_structure_for_color; is_white selects between two
\* branches that test the same thing
evaluate_pawn_structure_for_color(pawns, is_white) ==
    LET doubled == [file \in 0..7 |->
            IF pawns[file] > 1
            THEN doubled_pawn_penalty * (pawns[file] - 1) ELSE 0]
        isolated == [file \in 0..7 |->
            IF /\ pawns[file] > 0
               /\ ~(\/ (file > 0 /\ pawns[file - 1] > 0)
                    \/ (file < 7 /\ pawns[file + 1] > 0))
            THEN isolated_pawn_penalty ELSE 0]
        passed == [file \in 0..7 |->
            IF /\ pawns[file] > 0
               /\ (file = 0 \/ pawns[file - 1] = 0)
               /\ (file = 7 \/ pawns[file + 1] = 0)
            THEN passed_pawn_bonus ELSE 0]
        connected == [file \in 0..7 |->
            IF file < 7 /\ pawns[file] > 0 /\ pawns[file + 1] > 0
            THEN connected_pawn_bonus ELSE 0]
    IN  sum_over(doubled, 0..7) + sum_over(isolated, 0..7)
        + sum_over(passed, 0..7) + sum_over(connected, 0..7)

\* Evaluator::evaluate_pawn_structure
evaluate_pawn_structure(b) ==
    LET pawns(c) == [file \in 0..7 |->
            Cardinality({sq \in squares_holding(b, {"Pawn"}, c) : sq % 8 = file})]
    IN  evaluate_pawn_structure_for_color(pawns("White"), TRUE)
        - evaluate_pawn_structure_for_color(pawns("Black"), FALSE)

\* Evaluator::find_kings, one colour: the last square of the scan with a king
find_king(b, c) ==
    LET kings == squares_holding(b, {"King"}, c)
    IN  IF kings = {} THEN None
        ELSE Some(CHOOSE sq \in kings : \A other \in kings : other <= sq)

\* evaluate_pawn_shield: `rank - 1` on the u8 rank 0 of a black king
pawn_shield_overflows(king_square, is_white) ==
    king_square # None /\ ~is_white /\ unwrap(king_square) \div 8 = 0

\* Evaluator::evaluate_pawn_shield; an overflowing `rank - 1` wraps to 255, as
\* in a build without overflow checks
evaluate_pawn_shield(b, king_square, is_white) ==
    IF king_square = None THEN 0
    ELSE
    LET rank == unwrap(king_square) \div 8
        file == unwrap(king_square) % 8
        shield_rank == IF is_white THEN rank + 1 ELSE (rank - 1) % 256
        own == IF is_white THEN "White" ELSE "Black"
        shield == [file_offset \in -1..1 |->
            LET shield_file == file + file_offset
            IN  IF /\ shield_file >= 0 /\ shield_file < 8
                   /\ Board_get_piece_at(b, shield_rank * 8 + shield_file)
                         = Some(<<"Pawn", own>>)
                THEN pawn_shield_bonus ELSE 0]
    IN  IF shield_rank < 8
        THEN shield[-1] + shield[0] + shield[1]
        ELSE 0

\* Evaluator::evaluate_open_files
evaluate_open_files(b, king_square, is_white) ==
    IF king_square = None THEN 0
    ELSE
    LET file == unwrap(king_square) % 8
        own == IF is_white THEN "White" ELSE "Black"
        has_own_pawn ==
            \E rank \in 0..7 :
                Board_get_piece_at(b, rank * 8 + file) = Some(<<"Pawn", own>>)
        has_opponent_pawn ==
            \E rank \in 0..7 :
                Board_get_piece_at(b, rank * 8 + file)
                    = Some(<<"Pawn", opposite(own)>>)
    IN  IF ~has_own_pawn /\ ~has_opponent_pawn THEN open_file_penalty
        ELSE IF ~has_own_pawn THEN semi_open_file_penalty
        ELSE 0

\* Evaluator::evaluate_king_safety
evaluate_king_safety(b) ==
    LET white_king_square == find_king(b, "White")
        black_king_square == find_king(b, "Black")
    IN  evaluate_pawn_shield(b, white_king_square, TRUE)
        - evaluate_pawn_shield(b, black_king_square, FALSE)
        + evaluate_open_files(b, white_king_square, TRUE)
        - evaluate_open_files(b, black_king_square, FALSE)

\* evaluate meets an arithmetic overflow: a black king on the first rank
evaluate_overflows(b) == pawn_shield_overflows(find_king(b, "Black"), FALSE)

\* Evaluator::evaluate
evaluate(b) ==
    evaluate_material(b) + evaluate_mobility(b) + evaluate_pawn_structure(b)
    + evaluate_king_safety(b)

----------------------------------------------------------------------------
(* search.rs: Search.  A Search is a record of its fields; every method    *)
(* that takes &mut self returns the Search it leaves behind beside its     *)
(* result.  start_time and max_time are held as nodes_in_time, the Option  *)
(* of the number of nodes that can be searched before                      *)
(* `start_time.elapsed() > max_time` becomes true (None: the time never    *)
(* runs out).  rng is the state of thread_rng: the rotation that the next  *)
(* shuffle applies.  overflowed records that evaluate met `rank - 1` on    *)
(* rank 0 and went on with the wrapped value.                              *)
(* Four further fields are a history of the running find_best_move, which  *)
(* the struct does not hold: stores, one record for each                   *)
(* `transposition_table.store` of negamax; orderings, one record for each  *)
(* order_moves of negamax; root_scores, the score of each root move in the *)
(* order searched; overran, the number of moves a loop went on to after    *)
(* `start_time.elapsed() > max_time` had become true.                      *)

i32_MAX == 2147483647

\* TranspositionTable::new(1_000_000)
table_size == 1000000

\* Search::new (max_depth: 8, no killer moves, an all-zero history table)
Search_new ==
    [transposition_table |-> TranspositionTable_new(table_size),
     max_depth |-> 8,
     nodes_in_time |-> None,
     nodes_searched |-> 0,
     killer_moves |-> [depth \in 0..63 |-> <<None, None>>],
     history_table |-> <<>>,
     rng |-> 0,
     overflowed |-> FALSE,
     stores |-> <<>>,
     orderings |-> <<>>,
     root_scores |-> <<>>,
     overran |-> 0]

\* history_table[from][to]; the table holds the entries that are not zero
history_at(s, from, to) ==
    IF <<from, to>> \in DOMAIN s.history_table
    THEN s.history_table[<<from, to>>] ELSE 0

\* Search::get_piece_value
Search_get_piece_value(piece) ==
    CASE piece = "Pawn" -> 100 [] piece = "Knight" -> 320
      [] piece = "Bishop" -> 330 [] piece = "Rook" -> 500
      [] piece = "Queen" -> 900 [] piece = "King" -> 20000

\* Search::get_position_hash: the wrapping u64 sum of the signed piece values,
\* held as the signed sum (the sums of a board differ by less than 2^64)
Search_get_position_hash(b) ==
    LET value == [sq \in 0..63 |->
            LET at == Board_get_piece_at(b, sq)
            IN  IF at = None THEN 0
                ELSE Search_get_piece_value(unwrap(at)[1])
                     * (IF unwrap(at)[2] = "White" THEN 1 ELSE -1)]
    IN  sum_over(value, 0..63)

\* Search::move_to_u64
move_to_u64(mv) ==
    LET captured == IF mv.captured_piece = None THEN 0
                    ELSE piece_index(unwrap(mv.captured_piece))
        promo == IF mv.promotion = None THEN 0
                 ELSE piece_index(unwrap(mv.promotion))
    IN  mv.from + mv.to * 2 ^ 6 + piece_index(mv.piece) * 2 ^ 12
        + captured * 2 ^ 15 + promo * 2 ^ 18

\* Search::is_game_over
is_game_over(b) == Len(generate_moves(b)) = 0

\* the clock has passed the deadline: more nodes have been searched than the
\* time allowed
deadline_passed(s) ==
    s.nodes_in_time # None /\ s.nodes_searched > unwrap(s.nodes_in_time)

\* seeded fault: a poll that no count of nodes satisfies
time_is_up_never(s) == s.nodes_searched < 0

\* the poll `self.start_time.elapsed() > self.max_time`
time_is_up(s) == deadline_passed(s)

\* the closure order_moves sorts by
compare_moves(s, a, b, hash_move) ==
    LET a_capture == IF a.captured_piece = None THEN 0
                     ELSE Search_get_piece_value(unwrap(a.captured_piece))
        b_capture == IF b.captured_piece = None THEN 0
                     ELSE Search_get_piece_value(unwrap(b.captured_piece))
        a_promo == IF a.promotion = None THEN 0
                   ELSE Search_get_piece_value(unwrap(a.promotion))
        b_promo == IF b.promotion = None THEN 0
                   ELSE Search_get_piece_value(unwrap(b.promotion))
        depth == s.max_depth
        is_killer(slot, mv) ==
            /\ s.killer_moves[depth][slot] # None
            /\ unwrap(s.killer_moves[depth][slot]).from = mv.from
            /\ unwrap(s.killer_moves[depth][slot]).to = mv.to
        a_history == history_at(s, a.from, a.to)
        b_history == history_at(s, b.from, b.to)
    IN  IF hash_move # None /\ move_to_u64(a) = unwrap(hash_move) THEN "Less"
        ELSE IF hash_move # None /\ move_to_u64(b) = unwrap(hash_move)
        THEN "Greater"
        ELSE IF a_capture # b_capture
        THEN (IF b_capture < a_capture THEN "Less" ELSE "Greater")
        ELSE IF a_promo # b_promo
        THEN (IF b_promo < a_promo THEN "Less" ELSE "Greater")
        ELSE IF depth < 64 /\ is_killer(1, a) THEN "Less"
        ELSE IF depth < 64 /\ is_killer(1, b) THEN "Greater"
        ELSE IF depth < 64 /\ is_killer(2, a) THEN "Less"
        ELSE IF depth < 64 /\ is_killer(2, b) THEN "Greater"
        ELSE IF b_history < a_history THEN "Less"
        ELSE IF b_history > a_history THEN "Greater"
        ELSE "Equal"

RECURSIVE sort_by(_, _, _)
\* Vec::sort_by, a stable sort: each move goes behind the moves sorted so far
\* that it is not Less than
sort_by(s, moves, hash_move) ==
    IF Len(moves) <= 1 THEN moves
    ELSE LET mv == moves[Len(moves)]
             sorted == sort_by(s, SubSeq(moves, 1, Len(moves) - 1), hash_move)
             ahead == {i \in 1..Len(sorted) :
                          \A j \in i..Len(sorted) :
                              compare_moves(s, mv, sorted[j], hash_move) = "Less"}
             at == IF ahead = {} THEN Len(sorted) + 1 ELSE Min(ahead)
         IN  SubSeq(sorted, 1, at - 1) \o <<mv>>
             \o SubSeq(sorted, at, Len(sorted))

\* moves.shuffle(&mut thread_rng()): of the permutations, the rotation by rng
shuffle(moves, rng) ==
    IF Len(moves) = 0 THEN moves
    ELSE [i \in 1..Len(moves) |-> moves[((i - 1 + rng) % Len(moves)) + 1]]

\* Search::order_moves; the sorted moves (the Search itself is only read)
order_moves(s, moves, b, hash_move) ==
    LET is_opening ==
            Cardinality(b.white_pieces[0]) + Cardinality(b.black_pieces[0]) >= 14
    IN  sort_by(s, IF is_opening THEN shuffle(moves, s.rng) ELSE moves,
                hash_move)

\* Evaluator::evaluate as the search calls it
evaluated(s, b) ==
    [score |-> evaluate(b),
     search |-> [s EXCEPT !.overflowed = @ \/ evaluate_overflows(b)]]

RECURSIVE quiescence_search(_, _, _, _)
RECURSIVE quiescence_moves(_, _, _, _, _, _)
\* Search::quiescence_search
quiescence_search(s, b, alpha, beta) ==
    LET search_captures(stand, all) ==
            LET stand_pat == stand.score
                raised == IF alpha < stand_pat THEN stand_pat ELSE alpha
                kept == {k \in 1..Len(all) :
                            \/ all[k].captured_piece # None
                            \/ all[k].promotion # None}
                moves == concat_in_order([k \in kept |-> <<all[k]>>], kept)
            IN  IF stand_pat >= beta
                THEN [score |-> beta, search |-> stand.search]
                ELSE IF kept = {}
                THEN [score |-> stand_pat, search |-> stand.search]
                ELSE quiescence_moves(stand.search, b,
                         order_moves(stand.search, moves, b, None),
                         1, raised, beta)
    IN  search_captures(evaluated([s EXCEPT !.nodes_searched = @ + 1], b),
                        generate_moves(b))

\* the `for mv in moves` of quiescence_search from move i on
quiescence_moves(s, b, moves, i, alpha, beta) ==
    LET step(below) ==
            IF -below.score >= beta
            THEN [score |-> beta, search |-> below.search]
            ELSE quiescence_moves(below.search, b, moves, i + 1,
                     IF -below.score > alpha THEN -below.score ELSE alpha,
                     beta)
    IN  IF i > Len(moves) THEN [score |-> alpha, search |-> s]
        ELSE step(quiescence_search(s, make_move(b, moves[i]), -beta, -alpha))

\* the killer moves and the history table after a beta cutoff by mv
after_cutoff(s, mv, depth) ==
    LET killers ==
            IF mv.captured_piece = None /\ mv.promotion = None /\ depth < 64
            THEN [s.killer_moves EXCEPT
                      ![depth] = <<Some(mv), s.killer_moves[depth][1]>>]
            ELSE s.killer_moves
    IN  [s EXCEPT !.killer_moves = killers,
                  !.history_table =
                      map_insert(s.history_table, <<mv.from, mv.to>>,
                                 history_at(s, mv.from, mv.to) + depth * depth)]

RECURSIVE negamax(_, _, _, _, _)
RECURSIVE negamax_moves(_, _, _, _, _, _, _, _, _)
\* Search::negamax
negamax(s, b, depth, alpha, beta) ==
    LET stored(hash, searched) ==
            LET node_type ==
                    IF searched.best_score <= searched.alpha THEN "UpperBound"
                    ELSE IF searched.best_score >= beta THEN "LowerBound"
                    ELSE "Exact"
                entry ==
                    TranspositionEntry(hash, depth, searched.best_score,
                        node_type,
                        IF searched.best_move = None THEN None
                        ELSE Some(move_to_u64(unwrap(searched.best_move))))
            IN  [score |-> searched.best_score,
                 search |-> [searched.search EXCEPT
                     !.transposition_table = store(@, hash, entry, None),
                     !.stores = Append(@,
                         [entry |-> entry, alpha |-> alpha, beta |-> beta,
                          tried |-> searched.tried, moves |-> searched.moves,
                          cutoff |-> searched.cutoff])]]
        ordered(counted, hash, hash_move, moves) ==
            stored(hash,
                negamax_moves(
                    [counted EXCEPT !.orderings = Append(@,
                         [depth |-> depth, moves |-> moves,
                          hash_move |-> hash_move,
                          killer_moves |-> IF depth < 64
                                           THEN counted.killer_moves[depth]
                                           ELSE <<None, None>>])],
                    b, moves, 1, depth, alpha, beta, -i32_MAX, None))
        hash_moved(counted, hash, hash_move, moves) ==
            ordered(counted, hash, hash_move,
                    order_moves(counted, moves, b, hash_move))
        search_moves(counted, hash, moves) ==
            IF Len(moves) = 0 THEN evaluated(counted, b)
            ELSE hash_moved(counted, hash,
                     get_best_move(counted.transposition_table, hash), moves)
        probed(counted, hash, score) ==
            IF score # None
            THEN [score |-> unwrap(score), search |-> counted]
            ELSE IF depth = 0 \/ is_game_over(b)
            THEN quiescence_search(counted, b, alpha, beta)
            ELSE search_moves(counted, hash, generate_moves(b))
        hashed(counted, hash) ==
            probed(counted, hash,
                   probe(counted.transposition_table, hash, depth, alpha, beta))
    IN  hashed([s EXCEPT !.nodes_searched = @ + 1],
               Search_get_position_hash(b))

\* the `for mv in moves` of negamax from move i on
negamax_moves(s, b, moves, i, depth, alpha, beta, best_score, best_move) ==
    LET step(mv, below) ==
            LET score == -below.score
                better == score > best_score
                raised == IF score > alpha THEN score ELSE alpha
                left(after) ==
                    [search |-> after, alpha |-> raised,
                     best_score |-> IF better THEN score ELSE best_score,
                     best_move |-> IF better THEN Some(mv) ELSE best_move,
                     tried |-> i, moves |-> Len(moves),
                     cutoff |-> raised >= beta]
            IN  IF raised >= beta
                THEN left(after_cutoff(below.search, mv, depth))
                ELSE IF time_is_up(below.search) THEN left(below.search)
                ELSE negamax_moves(below.search, b, moves, i + 1, depth,
                         raised, beta,
                         IF better THEN score ELSE best_score,
                         IF better THEN Some(mv) ELSE best_move)
        late == IF i > 1 /\ deadline_passed(s) THEN 1 ELSE 0
    IN  IF i > Len(moves)
        THEN [search |-> s, alpha |-> alpha, best_score |-> best_score,
              best_move |-> best_move, tried |-> Len(moves),
              moves |-> Len(moves), cutoff |-> FALSE]
        ELSE step(moves[i],
                  negamax([s EXCEPT !.overran = @ + late],
                          make_move(b, moves[i]), depth - 1, -beta, -alpha))

\* `self.max_depth - 1` of find_best_move on a u32 that holds 0
max_depth_underflows(s, b) == s.max_depth = 0 /\ Len(generate_moves(b)) > 0

RECURSIVE root_moves(_, _, _, _, _, _, _)
\* the `for mv in moves` of find_best_move from move i on
root_moves(s, b, moves, i, alpha, best_score, best_move) ==
    LET step(mv, below) ==
            LET score == -below.score
                better == score > best_score
                scored(after) ==
                    [after EXCEPT !.root_scores =
                         Append(@, [mv |-> mv, score |-> score])]
            IN  IF time_is_up(below.search)
                THEN [best_move |-> IF better THEN Some(mv) ELSE best_move,
                      search |-> scored(below.search)]
                ELSE root_moves(scored(below.search), b, moves, i + 1,
                         IF score > alpha THEN score ELSE alpha,
                         IF better THEN score ELSE best_score,
                         IF better THEN Some(mv) ELSE best_move)
        late == IF i > 1 /\ deadline_passed(s) THEN 1 ELSE 0
    IN  IF i > Len(moves) THEN [best_move |-> best_move, search |-> s]
        ELSE step(moves[i],
                  negamax([s EXCEPT !.overran = @ + late],
                          make_move(b, moves[i]), s.max_depth - 1,
                          -i32_MAX, -alpha))

\* Search::find_best_move with a max_depth that does not underflow
find_best_move(s, b) ==
    LET search_root(started, moves) ==
            IF Len(moves) = 0 THEN [best_move |-> None, search |-> started]
            ELSE root_moves(started, b, order_moves(started, moves, b, None),
                            1, -i32_MAX, -i32_MAX, None)
    IN  search_root([s EXCEPT !.nodes_searched = 0, !.stores = <<>>,
                              !.orderings = <<>>, !.root_scores = <<>>,
                              !.overran = 0],
                    generate_moves(b))

----------------------------------------------------------------------------
(* The games the model plays.  Every game starts from Board::new() and     *)
(* applies only moves that generate_moves returns for the current board    *)
(* (as lib.rs perft, search.rs and main.rs is_move_legal do): first the    *)
(* moves of one opening line, then up to MaxExplore plies chosen freely.   *)

\* plies explored freely after the opening line
MaxExplore == 1

\* plies of the knight shuffle g1f3 g8f6 f3g1 f6g8 ...
ShuffleLen == 256

\* opening lines as <<from, to>> pairs, square = rank * 8 + file
\* e2e4 d7d5 e1e2 d5d4 e2e3
line_king_walk == <<<<12, 28>>, <<51, 35>>, <<4, 12>>, <<35, 27>>, <<12, 20>>>>

\* b2b3 g7g5 c1b2 g5g4
line_long_diagonal == <<<<9, 17>>, <<54, 38>>, <<2, 9>>, <<38, 30>>>>

\* e2e4 d7d5 e4e5 f7f5 (lib.rs test_en_passant)
line_en_passant == <<<<12, 28>>, <<51, 35>>, <<28, 36>>, <<53, 37>>>>

\* e2e4 e7e5 g1f3 g8f6 f1c4 f8c5
line_italian == <<<<12, 28>>, <<52, 36>>, <<6, 21>>, <<62, 45>>, <<5, 26>>, <<61, 34>>>>

\* h2h4 g7g5 h4g5 g8f6 g5f6 a7a6 f6e7 a6a5
line_promotion ==
    <<<<15, 31>>, <<54, 38>>, <<31, 38>>, <<62, 45>>,
      <<38, 45>>, <<48, 40>>, <<45, 52>>, <<40, 32>>>>

\* g1f3 g8f6 f3g1 f6g8, repeated
line_knight_shuffle ==
    [i \in 1..ShuffleLen |->
        <<<<6, 21>>, <<62, 45>>, <<21, 6>>, <<45, 62>>>>[((i - 1) % 4) + 1]]

\* h2h4 g7g5 h4g5 g8f6 g5g6 a7a6 g6g7 a6a5: a white pawn on g7 with g8 empty
line_promotion_push ==
    <<<<15, 31>>, <<54, 38>>, <<31, 38>>, <<62, 45>>,
      <<38, 46>>, <<48, 40>>, <<46, 54>>, <<40, 32>>>>

\* g1f3 h7h5 e2e3 h5h4 f1e2 h4h3 a2a3 h3g2: a black pawn on g2 beside f1
line_pawn_on_g2 ==
    <<<<6, 21>>, <<55, 39>>, <<12, 20>>, <<39, 31>>,
      <<5, 12>>, <<31, 23>>, <<8, 16>>, <<23, 14>>>>

\* f2f3 e7e5 g2g4 d8h4: the fool's mate
line_fools_mate == <<<<13, 21>>, <<52, 36>>, <<14, 30>>, <<59, 31>>>>

opening_lines ==
    << <<>>, line_king_walk, line_long_diagonal, line_en_passant,
       line_italian, line_promotion, line_knight_shuffle,
       line_promotion_push, line_pawn_on_g2, line_fools_mate >>

\* lib.rs test_perft_initial_position: the deepest perft it asserts
perft_max_depth == 3

\* whether the game may continue with move mv of generate_moves(board)
may_play(mv) ==
    IF played < Len(opening_lines[line])
    THEN /\ mv.from = opening_lines[line][played + 1][1]
         /\ mv.to = opening_lines[line][played + 1][2]
    ELSE explored < MaxExplore

\* history: the move of piece mv.from -> mv.to on b moves a pawn or captures
resets_quiet_plies(b, mv) ==
    \/ mv.from \in pieces_of(b, b.side_to_move)[0]
    \/ any_piece(pieces_of(b, opposite(b.side_to_move)), mv.to)

\* the transposition table plays no part
table_unused ==
    /\ tt = TranspositionTable_new(1)
    /\ last_stored = None
    /\ probe_call = None

\* no go command is given
search_unused ==
    /\ search = Search_new
    /\ bestmoves = <<>>

\* no move string is tried and nothing is evaluated
position_unused ==
    /\ parsed = None
    /\ evaluation = None

Init ==
    /\ board = Board_new
    /\ prev_board = Board_new
    /\ last_move = None
    /\ line \in 1..Len(opening_lines)
    /\ played = 0
    /\ explored = 0
    /\ quiet_plies = 0
    /\ panicked = FALSE
    /\ perft_results = <<>>
    /\ move_history = <<>>
    /\ game_state = None
    /\ table_unused
    /\ search_unused
    /\ position_unused

\* board.make_move(mv) for a generated move mv
Play(mv) ==
    /\ board' = make_move(board, mv)
    /\ prev_board' = board
    /\ last_move' = Some(mv)
    /\ quiet_plies' = IF resets_quiet_plies(board, mv) THEN 0 ELSE quiet_plies + 1
    /\ UNCHANGED <<line, panicked, perft_results>>
    /\ UNCHANGED <<classifier_vars, table_vars, search_vars, position_vars>>

\* the next move of the opening line
FollowLine ==
    /\ ~panicked
    /\ perft_results = <<>>
    /\ played < Len(opening_lines[line])
    /\ LET moves == generate_moves(board)
       IN  \E k \in 1..Len(moves) :
              /\ may_play(moves[k])
              /\ Play(moves[k])
    /\ played' = played + 1
    /\ UNCHANGED explored

\* any generated move, once the opening line is played
Explore ==
    /\ ~panicked
    /\ perft_results = <<>>
    /\ played = Len(opening_lines[line])
    /\ explored < MaxExplore
    /\ LET moves == generate_moves(board)
       IN  \E k \in 1..Len(moves) : Play(moves[k])
    /\ explored' = explored + 1
    /\ UNCHANGED played

\* make_move in a build with overflow checks: `halfmove_clock += 1` panics
MakeMovePanics ==
    /\ ~panicked
    /\ perft_results = <<>>
    /\ board.halfmove_clock = 255
    /\ LET moves == generate_moves(board)
       IN  \E k \in 1..Len(moves) :
              /\ may_play(moves[k])
              /\ halfmove_overflows(board, moves[k])
    /\ panicked' = TRUE
    /\ UNCHANGED <<board, prev_board, last_move, line, played, explored,
                   quiet_plies, perft_results>>
    /\ UNCHANGED <<classifier_vars, table_vars, search_vars, position_vars>>

\* lib.rs test_perft_initial_position: the next assert_eq!(perft(&board, ..))
PerftTest ==
    /\ line = 1
    /\ last_move = None
    /\ Len(perft_results) < perft_max_depth
    /\ perft_results' =
          Append(perft_results, perft(Board_new, Len(perft_results) + 1))
    /\ UNCHANGED <<board, prev_board, last_move, line, played, explored,
                   quiet_plies, panicked>>
    /\ UNCHANGED <<classifier_vars, table_vars, search_vars, position_vars>>

Next == FollowLine \/ Explore \/ MakeMovePanics \/ PerftTest

Spec == Init /\ [][Next]_vars

----------------------------------------------------------------------------
(* get_game_state as lib.rs calls it: on a board that a test builds from   *)
(* Board::new() by assigning its public fields, with a history slice the   *)
(* test makes up.                                                          *)

\* the bitboards of a placement, a set of <<piece index, square>> pairs
bitboards_of(placement) ==
    [i \in 0..5 |-> {p[2] : p \in {q \in placement : q[1] = i}}]

\* Board::new() with the piece fields, side_to_move and halfmove_clock assigned
board_with(white, black, side, clock) ==
    [Board_new EXCEPT !.white_pieces = bitboards_of(white),
                      !.black_pieces = bitboards_of(black),
                      !.side_to_move = side,
                      !.halfmove_clock = clock]

\* lib.rs test_checkmate: Qb1, Kc1 against Ka1, black to move
board_test_checkmate == board_with({<<4, 1>>, <<5, 2>>}, {<<5, 0>>}, "Black", 0)

\* lib.rs test_stalemate: Ka1 against Kc2, Qb3, white to move
board_test_stalemate == board_with({<<5, 0>>}, {<<5, 10>>, <<4, 17>>}, "White", 0)

\* lib.rs test_insufficient_material: Kd1 against Ke1, then with a bishop on c1
boards_test_insufficient ==
    {board_with({<<5, 3>>}, {<<5, 4>>}, "White", 0),
     board_with({<<5, 3>>, <<2, 2>>}, {<<5, 4>>}, "White", 0)}

\* Kb6, pawn b7, Be5 against Ka8, black to move: the pawn gives check and the
\* king has no square
board_pawn_mate ==
    board_with({<<5, 41>>, <<0, 49>>, <<2, 36>>}, {<<5, 56>>}, "Black", 0)

\* Ke1, pawn a2 against Ke8
board_pawn_a2 == board_with({<<5, 4>>, <<0, 8>>}, {<<5, 60>>}, "White", 0)

\* Ke1, knights a2 and b2 against Ke8
board_knights_a2_b2 ==
    board_with({<<5, 4>>, <<1, 8>>, <<1, 9>>}, {<<5, 60>>}, "White", 0)

\* what a side may hold beside its king on e1 or e8: nothing, a bishop on a
\* light or a dark square, a knight, a rook
white_extras == {{}, {<<2, 2>>}, {<<2, 5>>}, {<<1, 1>>}, {<<3, 0>>}}

black_extras == {{}, {<<2, 58>>}, {<<2, 61>>}, {<<1, 62>>}, {<<3, 56>>}}

\* the halfmove clocks tried, around 50 and 100 plies
clocks_tried == {0, 49, 50, 99, 100}

\* king and at most one piece a side, every pairing, side to move and clock
boards_few_pieces ==
    {board_with({<<5, 4>>} \cup w, {<<5, 60>>} \cup b, side, clock) :
        w \in white_extras, b \in black_extras, side \in Color,
        clock \in clocks_tried}

\* lib.rs test_fifty_move_rule: Board::new() with the clock assigned
boards_test_fifty_move == {[Board_new EXCEPT !.halfmove_clock = clock] :
                              clock \in clocks_tried}

classified_boards ==
    {board_test_checkmate, board_test_stalemate, board_pawn_mate,
     board_pawn_a2, board_knights_a2_b2}
    \cup boards_test_insufficient \cup boards_few_pieces
    \cup boards_test_fifty_move

\* the histories tried with board b: empty, b once, b twice (with other
\* clocks), b twice among other boards, lib.rs test_threefold_repetition's six
\* clones, and two boards that differ from b
histories_tried(b) ==
    {<<>>,
     <<b>>,
     <<[b EXCEPT !.halfmove_clock = 7], [b EXCEPT !.fullmove_number = 9]>>,
     <<b, Board_new, b, board_test_stalemate>>,
     <<b, b, b, b, b, b>>,
     <<board_pawn_a2, board_pawn_a2>>}

InitClassifier ==
    /\ board \in classified_boards
    /\ move_history \in histories_tried(board)
    /\ game_state = None
    /\ prev_board = board
    /\ last_move = None
    /\ line = 1
    /\ played = 0
    /\ explored = 0
    /\ quiet_plies = 0
    /\ panicked = FALSE
    /\ perft_results = <<>>
    /\ table_unused
    /\ search_unused
    /\ position_unused

\* generator.get_game_state(&board, &move_history)
GetGameState ==
    /\ game_state = None
    /\ game_state' = Some(get_game_state(board, move_history))
    /\ UNCHANGED <<game_vars, move_history, table_vars, search_vars,
                 position_vars>>

NextClassifier == GetGameState

SpecClassifier == InitClassifier /\ [][NextClassifier]_vars

----------------------------------------------------------------------------
(* The transposition table under any sequence of store and probe calls.    *)

\* the largest capacity a table is created with
MaxCapacity == 2

\* the hashes, depths and scores the calls are made with
hashes_tried == {1, 2, 3}

depths_tried == {1, 2}

scores_tried == {-1, 1}

\* the <<alpha, beta>> windows the probes are made with
windows_tried == {<<-1, 0>>, <<0, 1>>}

entries_tried(hash) ==
    {TranspositionEntry(hash, depth, score, node_type, None) :
        depth \in depths_tried, score \in scores_tried, node_type \in NodeType}

InitTable ==
    /\ tt \in {TranspositionTable_new(size) : size \in 1..MaxCapacity}
    /\ last_stored = None
    /\ probe_call = None
    /\ board = Board_new
    /\ prev_board = Board_new
    /\ last_move = None
    /\ line = 1
    /\ played = 0
    /\ explored = 0
    /\ quiet_plies = 0
    /\ panicked = FALSE
    /\ perft_results = <<>>
    /\ move_history = <<>>
    /\ game_state = None
    /\ search_unused
    /\ position_unused

\* table.store(hash, entry)
Store ==
    \E hash \in hashes_tried : \E entry \in entries_tried(hash) :
    \E oldest_key \in {None} \cup {Some(k) : k \in DOMAIN tt.table} :
        /\ may_store(tt, oldest_key)
        /\ tt' = store(tt, hash, entry, oldest_key)
        /\ last_stored' = Some([hash |-> hash, entry |-> entry,
                                evicted_other |-> oldest_key \notin {None, Some(hash)}])
        /\ probe_call' = None
        /\ UNCHANGED <<game_vars, classifier_vars, search_vars,
                     position_vars>>

\* table.probe(hash, depth, alpha, beta)
Probe ==
    \E hash \in hashes_tried : \E depth \in depths_tried :
    \E window \in windows_tried :
        /\ probe_call' = Some([hash |-> hash, depth |-> depth,
                               alpha |-> window[1], beta |-> window[2],
                               result |-> probe(tt, hash, depth,
                                                window[1], window[2])])
        /\ UNCHANGED <<tt, last_stored, game_vars, classifier_vars,
                       search_vars, position_vars>>

NextTable == Store \/ Probe

SpecTable == InitTable /\ [][NextTable]_vars

----------------------------------------------------------------------------
(* The UCI engine: `position startpos moves ...` with the moves of an      *)
(* opening line played so far, then `go`, then the position command with   *)
(* more moves of the line, and so on.  The Search lives as long as the     *)
(* engine: its table, killer moves and history are those the last go left. *)

\* go commands given in one session
MaxGo == 1

\* the lines the sessions follow
search_lines == {8, 10}

\* `go depth N`
depth_caps_tried == {0, 1, 2}

\* the time the search has: none beyond the first poll, or more than it needs
nodes_in_time_tried == {Some(0), None}

\* the rotations thread_rng may pick
rotations_tried == {0, 7}

InitSearch ==
    /\ board = Board_new
    /\ prev_board = Board_new
    /\ last_move = None
    /\ line \in search_lines
    /\ played = 0
    /\ explored = 0
    /\ quiet_plies = 0
    /\ panicked = FALSE
    /\ perft_results = <<>>
    /\ move_history = <<>>
    /\ game_state = None
    /\ table_unused
    /\ search_unused
    /\ position_unused

\* uci.rs format_move; a String is the sequence of its characters
format_move(mv) ==
    LET files == <<"a", "b", "c", "d", "e", "f", "g", "h">>
        ranks == <<"1", "2", "3", "4", "5", "6", "7", "8">>
        promotion ==
            CASE mv.promotion = None -> <<>>
              [] mv.promotion = Some("Queen") -> <<"q">>
              [] mv.promotion = Some("Rook") -> <<"r">>
              [] mv.promotion = Some("Bishop") -> <<"b">>
              [] mv.promotion = Some("Knight") -> <<"n">>
              [] OTHER -> <<" ">>
    IN  <<files[(mv.from % 8) + 1], ranks[(mv.from \div 8) + 1],
          files[(mv.to % 8) + 1], ranks[(mv.to \div 8) + 1]>> \o promotion

\* `c as u8` for the characters the move strings are made of
char_code ==
    [c \in {"a", "b", "c", "d", "e", "f", "g", "h", "i",
            "0", "1", "2", "3", "4", "5", "6", "7", "8", "9",
            "q", "r", "n", "k"} |->
        CASE c = "a" -> 97 [] c = "b" -> 98 [] c = "c" -> 99 [] c = "d" -> 100
          [] c = "e" -> 101 [] c = "f" -> 102 [] c = "g" -> 103
          [] c = "h" -> 104 [] c = "i" -> 105
          [] c = "0" -> 48 [] c = "1" -> 49 [] c = "2" -> 50 [] c = "3" -> 51
          [] c = "4" -> 52 [] c = "5" -> 53 [] c = "6" -> 54 [] c = "7" -> 55
          [] c = "8" -> 56 [] c = "9" -> 57
          [] c = "q" -> 113 [] c = "r" -> 114 [] c = "n" -> 110
          [] c = "k" -> 107]

\* parse_move: `chars().nth(0) as u8 - b'a'` and `chars().nth(1) as u8 - b'1'`
file_of_char(c) == char_code[c] - 97

rank_of_char(c) == char_code[c] - 49

\* parse_move: `(rank * 8 + file) as u8` of the two characters from index i
square_of_chars(move_str, i) ==
    rank_of_char(move_str[i + 1]) * 8 + file_of_char(move_str[i])

\* parse_move meets an arithmetic overflow on move_str: a u8 subtraction below
\* zero, a u8 sum above 255, or the `1u64 << square` of Board::get_piece_at
\* by 64 or more (for the target square only once the source square is found
\* to hold a piece of the side to move)
parse_move_overflows(b, move_str) ==
    /\ Len(move_str) \in {4, 5}
    /\ \/ \E i \in {1, 3} : file_of_char(move_str[i]) < 0
       \/ \E i \in {2, 4} : rank_of_char(move_str[i]) < 0
       \/ \E i \in {1, 3} : square_of_chars(move_str, i) > 255
       \/ square_of_chars(move_str, 1) >= 64
       \/ /\ Board_get_piece_at(b, square_of_chars(move_str, 1)) # None
          /\ unwrap(Board_get_piece_at(b, square_of_chars(move_str, 1)))[2]
                = b.side_to_move
          /\ square_of_chars(move_str, 3) >= 64

\* UciHandler::parse_move on a move_str that meets no overflow
parse_move(b, move_str) ==
    IF Len(move_str) # 4 /\ Len(move_str) # 5 THEN None
    ELSE
    LET from == square_of_chars(move_str, 1)
        to == square_of_chars(move_str, 3)
        found == Board_get_piece_at(b, from)
        target == Board_get_piece_at(b, to)
        promotion ==
            IF Len(move_str) = 5
            THEN CASE move_str[5] = "q" -> Some("Queen")
                   [] move_str[5] = "r" -> Some("Rook")
                   [] move_str[5] = "b" -> Some("Bishop")
                   [] move_str[5] = "n" -> Some("Knight")
                   [] OTHER -> None
            ELSE None
        mv == [Move_new(from, to, unwrap(found)[1]) EXCEPT
                  !.captured_piece =
                      IF target # None THEN Some(unwrap(target)[1]) ELSE None,
                  !.promotion = promotion]
    IN  IF found = None THEN None
        ELSE IF unwrap(found)[2] # b.side_to_move THEN None
        ELSE IF is_move_valid(b, mv) THEN Some(mv)
        ELSE None

\* handle_position, one `move_str` of `&parts[2..]`
position_after(b, move_str) ==
    IF parse_move(b, move_str) # None
    THEN make_move(b, unwrap(parse_move(b, move_str)))
    ELSE b

\* the line handle_go returns for what find_best_move found: the word
\* bestmove and the move, or `bestmove (none)`
bestmove_line(best_move) ==
    IF best_move # None
    THEN <<"bestmove", format_move(unwrap(best_move))>>
    ELSE <<"bestmove", <<"(", "n", "o", "n", "e", ")">>>>

\* handle_go: set_max_depth, set_max_time, and the clock and the generator
\* the search will meet
configured(max_depth, nodes_in_time, rng) ==
    [search EXCEPT !.max_depth = max_depth, !.nodes_in_time = nodes_in_time,
                   !.rng = rng, !.overflowed = FALSE]

\* handle_go where find_best_move runs to its end.  A `rank - 1` that
\* overflows on the way has wrapped, as in a build without overflow checks,
\* or has panicked, as in a build with them.
HandleGo ==
    \E max_depth \in depth_caps_tried :
    \E nodes_in_time \in nodes_in_time_tried :
    \E rng \in rotations_tried :
        /\ ~panicked
        /\ Len(bestmoves) < MaxGo
        /\ ~max_depth_underflows(configured(max_depth, nodes_in_time, rng),
                                 board)
        /\ \E found \in {find_best_move(
                             configured(max_depth, nodes_in_time, rng), board)} :
           \E panics \in {FALSE, found.search.overflowed} :
              /\ search' = IF panics THEN search ELSE found.search
              /\ panicked' = panics
              /\ bestmoves' = Append(bestmoves,
                     [board |-> board, max_depth |-> max_depth,
                      nodes_in_time |-> nodes_in_time,
                      output |-> IF panics THEN None
                                 ELSE Some(bestmove_line(found.best_move)),
                      panicked |-> panics])
        /\ UNCHANGED <<board, prev_board, last_move, line, played, explored,
                       quiet_plies, perft_results>>
        /\ UNCHANGED <<classifier_vars, table_vars, position_vars>>

\* handle_go in a build with overflow checks: the `self.max_depth - 1` of
\* find_best_move panics on a max_depth of 0.  (Without the checks it wraps
\* to u32::MAX plies, a search the model does not follow.)
HandleGoPanics ==
    \E max_depth \in depth_caps_tried :
    \E nodes_in_time \in nodes_in_time_tried :
    \E rng \in rotations_tried :
        /\ ~panicked
        /\ Len(bestmoves) < MaxGo
        /\ max_depth_underflows(configured(max_depth, nodes_in_time, rng),
                                board)
        /\ panicked' = TRUE
        /\ bestmoves' = Append(bestmoves,
               [board |-> board, max_depth |-> max_depth,
                nodes_in_time |-> nodes_in_time,
                output |-> None, panicked |-> TRUE])
        /\ UNCHANGED <<board, prev_board, last_move, line, played, explored,
                       quiet_plies, perft_results>>
        /\ UNCHANGED <<search, classifier_vars, table_vars, position_vars>>

NextSearch == FollowLine \/ HandleGo \/ HandleGoPanics

SpecSearch == InitSearch /\ [][NextSearch]_vars

----------------------------------------------------------------------------
(* The position command: `position startpos moves ...` with the moves of   *)
(* an opening line as move strings, each parsed by parse_move and applied  *)
(* when parse_move returns a move, and then one more move string of any    *)
(* kind.                                                                   *)

\* the lines the position commands follow
position_lines == {2, 4, 5, 6, 8, 9}

\* the two characters of a square
square_chars(square) ==
    <<(<<"a", "b", "c", "d", "e", "f", "g", "h">>)[(square % 8) + 1],
      (<<"1", "2", "3", "4", "5", "6", "7", "8">>)[(square \div 8) + 1]>>

\* source squares of the strings tried on b: every piece of the side to move,
\* the lowest piece of the other side, the lowest empty square
sources_tried(b) ==
    UNION {pieces_of(b, b.side_to_move)[i] : i \in 0..5}
    \cup {Min(UNION {pieces_of(b, opposite(b.side_to_move))[i] : i \in 0..5}),
          Min((0..63) \ occupied_of(b))}

\* strings that are no two squares and at most one promotion letter
odd_strings ==
    {<<"i", "1", "i", "2">>, <<"i", "1", "i", "3">>, <<"i", "6", "i", "5">>,
     <<"e", "2", "e">>, <<"e", "2", "e", "4", "q", "q">>,
     <<"a", "0", "a", "1">>, <<"a", "9", "a", "8">>, <<"a", "2", "a", "9">>,
     <<"b", "1", "c", "3", "k">>, <<"g", "7", "g", "8", "k">>}

\* the move strings tried on b
strings_tried(b) ==
    {square_chars(from) \o square_chars(to) \o suffix :
        from \in sources_tried(b), to \in 0..63, suffix \in {<<>>, <<"q">>}}
    \cup odd_strings

InitPosition ==
    /\ board = Board_new
    /\ prev_board = Board_new
    /\ last_move = None
    /\ line \in position_lines
    /\ played = 0
    /\ explored = 0
    /\ quiet_plies = 0
    /\ panicked = FALSE
    /\ perft_results = <<>>
    /\ move_history = <<>>
    /\ game_state = None
    /\ table_unused
    /\ search_unused
    /\ position_unused

\* handle_position: the next move string of the line
PositionMove ==
    /\ ~panicked
    /\ parsed = None
    /\ played < Len(opening_lines[line])
    /\ \E move_str \in {square_chars(opening_lines[line][played + 1][1])
                        \o square_chars(opening_lines[line][played + 1][2])} :
          /\ board' = position_after(board, move_str)
          /\ prev_board' = board
          /\ last_move' = parse_move(board, move_str)
    /\ played' = played + 1
    /\ UNCHANGED <<line, explored, quiet_plies, panicked, perft_results>>
    /\ UNCHANGED <<classifier_vars, table_vars, search_vars, position_vars>>

\* handle_position: one more move string, parse_move meeting no overflow;
\* by_generated: the boards make_move gives for the moves of generate_moves
\* that format_move writes as this string
TryMove ==
    /\ ~panicked
    /\ parsed = None
    /\ \E moves \in {generate_moves(board)} :
       \E move_str \in strings_tried(board)
                       \cup {format_move(moves[k]) : k \in 1..Len(moves)} :
          /\ ~parse_move_overflows(board, move_str)
          /\ board' = position_after(board, move_str)
          /\ parsed' = Some([board |-> board, move_str |-> move_str,
                             result |-> parse_move(board, move_str),
                             by_generated |->
                                 {make_move(board, moves[k]) :
                                     k \in {j \in 1..Len(moves) :
                                         format_move(moves[j]) = move_str}}])
    /\ UNCHANGED <<prev_board, last_move, line, played, explored, quiet_plies,
                   panicked, perft_results, evaluation>>
    /\ UNCHANGED <<classifier_vars, table_vars, search_vars>>

\* handle_position in a build with overflow checks: parse_move panics.
\* (Without the checks the subtraction, the sum or the shift wraps, a parse
\* the model does not follow.)
TryMovePanics ==
    /\ ~panicked
    /\ parsed = None
    /\ \E move_str \in strings_tried(board) :
          /\ parse_move_overflows(board, move_str)
          /\ parsed' = Some([board |-> board, move_str |-> move_str,
                             result |-> None, by_generated |-> {}])
    /\ panicked' = TRUE
    /\ UNCHANGED <<board, prev_board, last_move, line, played, explored,
                   quiet_plies, perft_results, evaluation>>
    /\ UNCHANGED <<classifier_vars, table_vars, search_vars>>

NextPosition == PositionMove \/ TryMove \/ TryMovePanics

SpecPosition == InitPosition /\ [][NextPosition]_vars

----------------------------------------------------------------------------
(* Evaluator::evaluate and generate_moves on boards that a caller builds,  *)
(* as lib.rs does for get_game_state: the two kings anywhere, a pawn each  *)
(* or none, either side to move.                                           *)

\* squares tried for the white king
white_king_squares == {0, 4, 27, 39, 60, 63}

\* pawns tried beside the kings: none, or a2 against h7
pawns_tried == {<<{}, {}>>, <<{<<0, 8>>}, {<<0, 55>>}>>}

\* legal positions: the kings apart, no piece on another, the side that has
\* moved not in check
boards_kings_anywhere ==
    {b \in {[board_with({<<5, wk>>} \cup pawns[1], {<<5, bk>>} \cup pawns[2],
                        side, 0) EXCEPT !.castling_rights = {}] :
               wk \in white_king_squares, bk \in 0..63, side \in Color,
               pawns \in pawns_tried} :
        LET wk == Min(b.white_pieces[5])
            bk == Min(b.black_pieces[5])
        IN  /\ Abs((wk \div 8) - (bk \div 8)) > 1 \/ Abs((wk % 8) - (bk % 8)) > 1
            /\ {wk, bk} \cap (b.white_pieces[0] \cup b.black_pieces[0]) = {}
            /\ ~(\E p \in b.white_pieces[0] :
                    /\ b.side_to_move = "White"
                    /\ (bk \div 8) = (p \div 8) + 1
                    /\ Abs((bk % 8) - (p % 8)) = 1)
            /\ ~(\E p \in b.black_pieces[0] :
                    /\ b.side_to_move = "Black"
                    /\ (wk \div 8) = (p \div 8) - 1
                    /\ Abs((wk % 8) - (p % 8)) = 1)}

InitEvaluate ==
    /\ board \in boards_kings_anywhere
    /\ prev_board = board
    /\ last_move = None
    /\ line = 1
    /\ played = 0
    /\ explored = 0
    /\ quiet_plies = 0
    /\ panicked = FALSE
    /\ perft_results = <<>>
    /\ move_history = <<>>
    /\ game_state = None
    /\ table_unused
    /\ search_unused
    /\ position_unused

\* evaluator.evaluate(&board) and generator.generate_moves(&board); a
\* `rank - 1` that overflows has wrapped, as in a build without overflow
\* checks
Evaluate ==
    /\ ~panicked
    /\ evaluation = None
    /\ evaluation' = Some([call |-> "evaluate",
                           score |-> evaluate(board),
                           moves |-> Len(generate_moves(board)),
                           overflowed |-> evaluate_overflows(board)])
    /\ UNCHANGED <<game_vars, classifier_vars, table_vars, search_vars, parsed>>

\* a new Search at the horizon with the full window:
\* negamax(&board, 0, -i32::MAX, i32::MAX) or
\* quiescence_search(&board, -i32::MAX, i32::MAX)
Horizon ==
    /\ ~panicked
    /\ evaluation = None
    /\ \E found \in {[call |-> "negamax",
                       result |-> negamax(Search_new, board, 0,
                                          -i32_MAX, i32_MAX)],
                      [call |-> "quiescence_search",
                       result |-> quiescence_search(Search_new, board,
                                                    -i32_MAX, i32_MAX)]} :
           evaluation' = Some([call |-> found.call,
                               score |-> found.result.score,
                               moves |-> Len(generate_moves(board)),
                               overflowed |-> found.result.search.overflowed])
    /\ UNCHANGED <<game_vars, classifier_vars, table_vars, search_vars, parsed>>

\* evaluate, called directly or at the horizon, in a build with overflow
\* checks: the `rank - 1` of evaluate_pawn_shield panics
EvaluatePanics ==
    /\ ~panicked
    /\ evaluation = None
    /\ evaluate_overflows(board)
    /\ panicked' = TRUE
    /\ UNCHANGED <<board, prev_board, last_move, line, played, explored,
                   quiet_plies, perft_results>>
    /\ UNCHANGED <<classifier_vars, table_vars, search_vars, position_vars>>

NextEvaluate == Evaluate \/ Horizon \/ EvaluatePanics

SpecEvaluate == InitEvaluate /\ [][NextEvaluate]_vars

----------------------------------------------------------------------------
(* The rules of chess the claims refer to, stated independently of the     *)
(* generator's attack query.                                               *)

rank_of(square) == square \div 8

file_of(square) == square % 8

sign(x) == IF x > 0 THEN 1 ELSE IF x < 0 THEN -1 ELSE 0

\* no piece stands strictly between two squares of one rank, file or diagonal
clear_between(b, p, q) ==
    LET dr == rank_of(q) - rank_of(p)
        df == file_of(q) - file_of(p)
        n == IF Abs(dr) > Abs(df) THEN Abs(dr) ELSE Abs(df)
    IN  \A k \in 1..(n - 1) :
           ((rank_of(p) + k * sign(dr)) * 8 + file_of(p) + k * sign(df))
               \notin occupied_of(b)

\* some piece of colour c attacks square q under the rules of chess
attacked_by_rules(b, q, c) ==
    LET pieces == pieces_of(b, c)
        forward == IF c = "White" THEN 1 ELSE -1
        dr(p) == rank_of(q) - rank_of(p)
        df(p) == file_of(q) - file_of(p)
    IN  \/ \E p \in pieces[0] : dr(p) = forward /\ Abs(df(p)) = 1
        \/ \E p \in pieces[1] : {Abs(dr(p)), Abs(df(p))} = {1, 2}
        \/ \E p \in pieces[5] :
              p # q /\ Abs(dr(p)) <= 1 /\ Abs(df(p)) <= 1
        \/ \E p \in pieces[2] \cup pieces[4] :
              p # q /\ Abs(dr(p)) = Abs(df(p)) /\ clear_between(b, p, q)
        \/ \E p \in pieces[3] \cup pieces[4] :
              p # q /\ (dr(p) = 0 \/ df(p) = 0) /\ clear_between(b, p, q)

\* the side that made the last move
mover == opposite(board.side_to_move)

\* the last move moved a pawn exactly two ranks
last_was_double_push ==
    /\ last_move # None
    /\ unwrap(last_move).from \in pieces_of(prev_board, prev_board.side_to_move)[0]
    /\ Abs(rank_of(unwrap(last_move).to) - rank_of(unwrap(last_move).from)) = 2

\* the last move took the enemy rook standing on the home corner `corner`
last_took_rook_on(corner) ==
    /\ last_move # None
    /\ unwrap(last_move).to = corner
    /\ unwrap(last_move).captured_piece = Some("Rook")
    /\ corner \in pieces_of(prev_board, board.side_to_move)[3]
    /\ corner \in (IF board.side_to_move = "White" THEN {0, 7} ELSE {56, 63})

\* the castling-rights bit of a rook's home corner (a1, h1, a8, h8)
right_of_corner(corner) ==
    CASE corner = 0 -> 2 [] corner = 7 -> 1 [] corner = 56 -> 8 [] corner = 63 -> 4

\* the (colour, kind) pairs whose piece-set holds a square
claimants(b, square) ==
    {x \in Color \X (0..5) : square \in pieces_of(b, x[1])[x[2]]}

----------------------------------------------------------------------------
(* The claims *)

\* C1: after make_move(m) of a generated move m, in a position reached from
\* the initial one by generated moves, the mover's king is not attacked by
\* any enemy piece under the rules of chess.
C1_MoverKingNotAttacked ==
    last_move # None =>
        \A k \in pieces_of(board, mover)[5] :
            ~attacked_by_rules(board, k, board.side_to_move)

\* C2: is_square_under_attack(board, sq, c) is true exactly when some piece
\* of colour c attacks sq under the rules of chess.
C2_AttackQueryMatchesRules ==
    \A square \in 0..63 : \A c \in Color :
        is_square_under_attack(board, square, c)
            <=> attacked_by_rules(board, square, c)

\* C3: in every position reached by generated moves each colour has exactly
\* one king.
C3_ExactlyOneKingEach ==
    \A c \in Color : Cardinality(pieces_of(board, c)[5]) = 1

\* C4: in every position reached by generated moves the twelve piece-sets
\* are pairwise disjoint (at most one (kind, colour) per square), and
\* Board::get_piece_at returns that piece, or None on an empty square.
C4_PieceSetsDisjoint ==
    \A square \in 0..63 :
        LET cl == claimants(board, square)
        IN  /\ Cardinality(cl) <= 1
            /\ cl = {} => Board_get_piece_at(board, square) = None
            /\ \A x \in cl :
                  Board_get_piece_at(board, square)
                      = Some(<<piece_of_index(x[2]), x[1]>>)

\* a promotion capture was just made
C4_Witness ==
    /\ last_move # None
    /\ unwrap(last_move).captured_piece # None
    /\ unwrap(last_move).promotion # None
    /\ claimants(board, unwrap(last_move).to) # {}

\* C5: no make_move sets a castling-rights bit that was clear before it.
C5_CastlingRightsNonIncreasing ==
    last_move # None => board.castling_rights \subseteq prev_board.castling_rights

\* a make_move just dropped a right, after an earlier one had dropped others
C5_Witness ==
    /\ last_move # None
    /\ board.castling_rights # prev_board.castling_rights
    /\ prev_board.castling_rights # {1, 2, 4, 8}

\* C6: when a capture takes the enemy rook standing on its home corner, the
\* castling right of that corner is clear in the resulting position.
C6_RookCaptureClearsRight ==
    \A corner \in {0, 7, 56, 63} :
        last_took_rook_on(corner) =>
            right_of_corner(corner) \notin board.castling_rights

\* C7: after make_move(m), en_passant_square is Some(s) iff m moved a pawn
\* exactly two ranks, and then s is the square passed over; a target set by
\* one move is not present after the next.
C7_EnPassantSetIffDoublePush ==
    last_move # None =>
        /\ IF last_was_double_push
           THEN board.en_passant_square =
                    Some((unwrap(last_move).from + unwrap(last_move).to) \div 2)
           ELSE board.en_passant_square = None
        /\ prev_board.en_passant_square # None =>
              board.en_passant_square # prev_board.en_passant_square

\* a double push answered a double push: an old target replaced by a new one
C7_Witness ==
    /\ last_move # None
    /\ prev_board.en_passant_square # None
    /\ board.en_passant_square # None

\* a pawn of the side to move stands beside the square the last move landed on
pawn_beside_landing_square ==
    \E p \in pieces_of(board, board.side_to_move)[0] :
        /\ rank_of(p) = rank_of(unwrap(last_move).to)
        /\ Abs(file_of(p) - file_of(unwrap(last_move).to)) = 1

\* C8 as stated: if en_passant_square is set, the previous move was a pawn
\* double push landing horizontally adjacent to a pawn of the side to move.
C8_EnPassantOnlyBesideEnemyPawn ==
    board.en_passant_square # None =>
        last_was_double_push /\ pawn_beside_landing_square

\* C8 as amended: if en_passant_square is set, the previous move was a pawn
\* double push (whether or not an enemy pawn stands beside its landing
\* square), and the target lies between its from and to squares.
C8_EnPassantOnlyAfterDoublePush ==
    board.en_passant_square # None =>
        /\ last_was_double_push
        /\ rank_of(unwrap(board.en_passant_square)) =
              (IF mover = "White" THEN 2 ELSE 5)
        /\ file_of(unwrap(board.en_passant_square)) =
              file_of(unwrap(last_move).to)

\* the target is set after a double push with no enemy pawn beside it
C8_Witness ==
    /\ board.en_passant_square # None
    /\ last_was_double_push
    /\ ~pawn_beside_landing_square

\* C9: halfmove_clock equals the number of plies since the last pawn move or
\* capture, and the u8 counter never overflows (panics or wraps).
C9_HalfmoveClockCountsQuietPlies ==
    ~panicked /\ board.halfmove_clock = quiet_plies

\* C10: perft of the initial position is 20, 400 and 8902 at depth 1, 2, 3.
C10_PerftInitialPosition ==
    \A d \in 1..Len(perft_results) : perft_results[d] = <<20, 400, 8902>>[d]

\* the three perft calls of the test have returned
C10_Witness == Len(perft_results) = 3

\* the moves generate_moves returns for the current position
generated == generate_moves(board)

\* the square whose piece move mv of position b takes off the board
capture_square(b, mv) ==
    IF mv.is_en_passant
    THEN (IF b.side_to_move = "White" THEN mv.to - 8 ELSE mv.to + 8)
    ELSE mv.to

\* C11: for every move m of generate_moves, m.piece is the kind of the
\* mover's piece on m.from, and m.captured_piece is present exactly when an
\* enemy piece stands on the capture square (m.to, or for en passant the pawn
\* square behind m.to), and then it is the kind of that piece.
C11_MoveFieldsMatchBoard ==
    \A k \in 1..Len(generated) :
        LET mv == generated[k]
            own == pieces_of(board, board.side_to_move)
            enemy == pieces_of(board, opposite(board.side_to_move))
            sq == capture_square(board, mv)
        IN  /\ mv.from \in own[piece_index(mv.piece)]
            /\ mv.captured_piece # None <=> any_piece(enemy, sq)
            /\ mv.captured_piece # None =>
                  sq \in enemy[piece_index(unwrap(mv.captured_piece))]
            /\ mv.is_en_passant => mv.captured_piece = Some("Pawn")

\* the move list holds an en-passant capture beside moves that capture nothing
C11_Witness ==
    /\ \E k \in 1..Len(generated) : generated[k].is_en_passant
    /\ \E k \in 1..Len(generated) : generated[k].captured_piece = None

\* the last rank of the side to move
promotion_rank(b) == IF b.side_to_move = "White" THEN 7 ELSE 0

\* a pawn of the side to move on `from` may, by the rules of chess, push or
\* capture to `to` (king safety apart)
pawn_reaches(b, from, to) ==
    LET forward == IF b.side_to_move = "White" THEN 1 ELSE -1
    IN  /\ from \in pieces_of(b, b.side_to_move)[0]
        /\ rank_of(to) = rank_of(from) + forward
        /\ \/ file_of(to) = file_of(from) /\ to \notin occupied_of(b)
           \/ /\ Abs(file_of(to) - file_of(from)) = 1
              /\ any_piece(pieces_of(b, opposite(b.side_to_move)), to)

\* the promotion to `kind` of the pawn on `from` arriving on `to`
promotion_move(b, from, to, kind) ==
    IF any_piece(pieces_of(b, opposite(b.side_to_move)), to)
    THEN Move_new_promotion_capture(from, to, get_piece_at(b, to), kind)
    ELSE Move_new_promotion(from, to, kind)

\* after move mv the mover's king is not attacked under the rules of chess
king_safe_by_rules(b, mv) ==
    \A k \in pieces_of(make_move(b, mv), b.side_to_move)[5] :
        ~attacked_by_rules(make_move(b, mv), k, opposite(b.side_to_move))

\* the generated moves from `from` to `to`
generated_between(from, to) ==
    SelectSeq(generated, LAMBDA mv : mv.from = from /\ mv.to = to)

castling_wings(c) ==
    IF c = "White"
    THEN {[right |-> 1, king |-> 4, rook |-> 7, between |-> {5, 6},
           path |-> {4, 5, 6}, to |-> 6],
          [right |-> 2, king |-> 4, rook |-> 0, between |-> {1, 2, 3},
           path |-> {4, 3, 2}, to |-> 2]}
    ELSE {[right |-> 4, king |-> 60, rook |-> 63, between |-> {61, 62},
           path |-> {60, 61, 62}, to |-> 62],
          [right |-> 8, king |-> 60, rook |-> 56, between |-> {57, 58, 59},
           path |-> {60, 59, 58}, to |-> 58]}

\* generate_moves holds the castling move of wing w
castling_generated(w) ==
    \E k \in 1..Len(generated) :
        /\ generated[k].is_castling
        /\ generated[k].from = w.king
        /\ generated[k].to = w.to

\* the right of wing w is present, its rook is at home, the squares between
\* are empty and no square of the king's path is attacked under the rules
castling_allowed_by_rules(b, w) ==
    /\ w.right \in b.castling_rights
    /\ w.rook \in pieces_of(b, b.side_to_move)[3]
    /\ w.between \cap occupied_of(b) = {}
    /\ \A q \in w.path : ~attacked_by_rules(b, q, opposite(b.side_to_move))

\* C13: generate_moves contains the castling move of the side to move toward
\* a wing if and only if that right is present, the rook of that wing is on
\* its home square, the squares between king and rook are empty, and the
\* king's square, pass-through square and destination are not attacked by
\* any opposing piece under the rules of chess.
C13_CastlingIffRulesAllow ==
    \A w \in castling_wings(board.side_to_move) :
        castling_generated(w) <=> castling_allowed_by_rules(board, w)

\* the number of pieces of each kind colour c holds
material(b, c) == [i \in 0..5 |-> Cardinality(pieces_of(b, c)[i])]

\* a lone king
bare_king == [i \in 0..5 |-> IF i = 5 THEN 1 ELSE 0]

\* a king and one piece of kind index k
king_and(k) == [i \in 0..5 |-> IF i \in {5, k} THEN 1 ELSE 0]

\* the two squares have the same colour
same_colour(p, q) == (rank_of(p) + file_of(p)) % 2 = (rank_of(q) + file_of(q)) % 2

\* each side has a king and one bishop
bishop_each(b) ==
    material(b, "White") = king_and(2) /\ material(b, "Black") = king_and(2)

\* the bishops of a bishop_each position stand on squares of one colour
bishops_alike(b) ==
    \A p \in b.white_pieces[2] : \A q \in b.black_pieces[2] : same_colour(p, q)

\* K vs K, K+B vs K, K+N vs K, K+B vs K+B with same-coloured bishops
insufficient_by_rules(b) ==
    \/ material(b, "White") = bare_king /\ material(b, "Black") = bare_king
    \/ \E c \in Color : \E k \in {1, 2} :
          material(b, c) = king_and(k) /\ material(b, opposite(c)) = bare_king
    \/ bishop_each(b) /\ bishops_alike(b)

\* the same position: piece placement, side to move, castling rights and
\* en-passant target
same_position(a, b) ==
    /\ a.white_pieces = b.white_pieces
    /\ a.black_pieces = b.black_pieces
    /\ a.side_to_move = b.side_to_move
    /\ a.castling_rights = b.castling_rights
    /\ a.en_passant_square = b.en_passant_square

\* at least two positions of the history are the position b
occurs_thrice(b, history) ==
    Cardinality({k \in 1..Len(history) : same_position(history[k], b)}) >= 2

\* some move of the pieces of the side to move leaves its king unattacked
\* under the rules of chess (castling apart: when castling is legal so is the
\* king's step onto the square it passes)
has_legal_move_by_rules(b) ==
    \E k \in 1..Len(pseudo_legal_moves(b)) :
        /\ ~pseudo_legal_moves(b)[k].is_castling
        /\ king_safe_by_rules(b, pseudo_legal_moves(b)[k])

\* the king of the side to move is attacked under the rules of chess
in_check_by_rules(b) ==
    \E k \in pieces_of(b, b.side_to_move)[5] :
        attacked_by_rules(b, k, opposite(b.side_to_move))

\* neither draw rule that get_game_state tests before the moves applies:
\* sufficient material, a clock below 50 plies, no repetition
no_draw_rule_applies ==
    /\ ~insufficient_by_rules(board)
    /\ board.halfmove_clock < 50
    /\ ~occurs_thrice(board, move_history)
    /\ ~is_threefold_repetition(board, move_history)

\* C14: when material is sufficient, the fifty-move threshold is not reached
\* and there is no threefold repetition, get_game_state returns
\* Checkmate(opponent of the side to move) if the side to move has no legal
\* move and its king is in check, Stalemate if it has no legal move and its
\* king is not in check, and Ongoing if it has a legal move.
C14_MateStalemateOngoing ==
    (game_state # None /\ no_draw_rule_applies) =>
        unwrap(game_state) =
            (IF has_legal_move_by_rules(board) THEN Ongoing
             ELSE IF in_check_by_rules(board)
             THEN Checkmate(opposite(board.side_to_move))
             ELSE Stalemate)

\* C15: get_game_state returns FiftyMoveRule exactly when the material is not
\* insufficient and halfmove_clock is at least 100.
C15_FiftyMoveAtHundredPlies ==
    game_state # None =>
        (unwrap(game_state) = FiftyMoveRule
            <=> (~insufficient_by_rules(board) /\ board.halfmove_clock >= 100))

\* C16: get_game_state returns InsufficientMaterial for K vs K, K+B vs K,
\* K+N vs K and K+B vs K+B with same-coloured bishops, whichever side holds
\* the piece and whatever the clock and the history, and does not return it
\* for K+B vs K+B with bishops on squares of opposite colours.
C16_InsufficientMaterial ==
    game_state # None =>
        /\ insufficient_by_rules(board) =>
              unwrap(game_state) = InsufficientMaterial
        /\ (bishop_each(board) /\ ~bishops_alike(board)) =>
              unwrap(game_state) # InsufficientMaterial

\* a K+B vs K+B position with same-coloured bishops was classified with a
\* clock of 100 plies and a repeating history
C16_Witness ==
    /\ game_state = Some(InsufficientMaterial)
    /\ bishop_each(board) /\ bishops_alike(board)
    /\ board.halfmove_clock = 100
    /\ occurs_thrice(board, move_history)

\* C17: when material is sufficient and the fifty-move threshold is not
\* reached, get_game_state returns ThreefoldRepetition exactly when at least
\* two positions of the supplied history are the same position as the
\* current one (piece placement, side to move, castling rights, en-passant
\* target).
C17_ThreefoldIffSamePositionTwice ==
    (game_state # None /\ ~insufficient_by_rules(board)
       /\ board.halfmove_clock < 50) =>
        (unwrap(game_state) = ThreefoldRepetition
            <=> occurs_thrice(board, move_history))

\* the last probe is one that the table must answer with its entry's score:
\* an entry for the hash, at least as deep as asked, that is Exact, or a
\* LowerBound with score >= beta, or an UpperBound with score <= alpha
probe_usable(call) ==
    /\ call.hash \in DOMAIN tt.table
    /\ tt.table[call.hash].depth >= call.depth
    /\ \/ tt.table[call.hash].node_type = "Exact"
       \/ /\ tt.table[call.hash].node_type = "LowerBound"
          /\ tt.table[call.hash].score >= call.beta
       \/ /\ tt.table[call.hash].node_type = "UpperBound"
          /\ tt.table[call.hash].score <= call.alpha

\* C18: probe(hash, depth, alpha, beta) returns Some(score) only when the
\* table holds an entry for hash with entry.depth >= depth that is Exact, or
\* LowerBound with score >= beta, or UpperBound with score <= alpha, and then
\* score is the entry's score; in every other case, an entry shallower than
\* the requested depth included, it returns None.
C18_ProbeUsableOnly ==
    probe_call # None =>
        unwrap(probe_call).result =
            (IF probe_usable(unwrap(probe_call))
             THEN Some(tt.table[unwrap(probe_call).hash].score)
             ELSE None)

\* a probe found an Exact entry shallower than asked and returned None
C18_Witness ==
    /\ probe_call # None
    /\ unwrap(probe_call).hash \in DOMAIN tt.table
    /\ tt.table[unwrap(probe_call).hash].node_type = "Exact"
    /\ tt.table[unwrap(probe_call).hash].depth < unwrap(probe_call).depth
    /\ unwrap(probe_call).result = None

\* C19: a table created with capacity C >= 1 holds at most C entries after
\* any sequence of store calls, and the entry most recently stored is
\* present.
C19_SizeBoundedLastStoredPresent ==
    /\ Cardinality(DOMAIN tt.table) <= tt.size
    /\ last_stored # None =>
          /\ unwrap(last_stored).hash \in DOMAIN tt.table
          /\ tt.table[unwrap(last_stored).hash] = unwrap(last_stored).entry

\* a store into a full table of capacity 2 removed the entry of another hash
\* and put in one the table did not hold
C19_Witness ==
    /\ tt.size = 2
    /\ Cardinality(DOMAIN tt.table) = 2
    /\ last_stored # None
    /\ unwrap(last_stored).evicted_other

\* the lines handle_go may answer on board b: a move of generate_moves(b),
\* or `bestmove (none)` when there is none
may_answer(b) ==
    LET moves == generate_moves(b)
    IN  IF Len(moves) = 0 THEN {bestmove_line(None)}
        ELSE {bestmove_line(Some(moves[k])) : k \in 1..Len(moves)}

\* C20: every go, whatever its depth cap (0 included) and its deadline, is
\* answered: with a move of generate_moves(board) when that list is not
\* empty, and with `bestmove (none)` exactly when it is empty
C20_GoAnswersWithGeneratedMove ==
    \A i \in 1..Len(bestmoves) :
        /\ ~bestmoves[i].panicked
        /\ bestmoves[i].output # None
        /\ unwrap(bestmoves[i].output) \in may_answer(bestmoves[i].board)

\* the move that a source square, a target square and a promotion (or None)
\* denote on b under the rules of chess: a king going two files castles, a
\* pawn going diagonally to an empty square captures en passant
move_by_rules(b, from, to, promotion) ==
    LET piece == unwrap(Board_get_piece_at(b, from))[1]
        target == Board_get_piece_at(b, to)
        castles == piece = "King" /\ Abs(file_of(to) - file_of(from)) = 2
        en_passant == /\ piece = "Pawn" /\ file_of(to) # file_of(from)
                      /\ target = None
    IN  [Move_new(from, to, piece) EXCEPT
            !.captured_piece = IF en_passant THEN Some("Pawn")
                               ELSE IF target = None THEN None
                               ELSE Some(unwrap(target)[1]),
            !.promotion = promotion,
            !.is_en_passant = en_passant,
            !.is_castling = castles]

\* the piece of the side to move on `from` may go to `to` under the rules of
\* chess, the safety of its king apart
reaches_by_rules(b, from, to) ==
    LET c == b.side_to_move
        own == pieces_of(b, c)
        dr == rank_of(to) - rank_of(from)
        df == file_of(to) - file_of(from)
        forward == IF c = "White" THEN 1 ELSE -1
    IN  /\ from # to
        /\ ~any_piece(own, to)
        /\ \/ pawn_reaches(b, from, to)
           \/ /\ from \in own[0] /\ df = 0 /\ dr = 2 * forward
              /\ rank_of(from) = (IF c = "White" THEN 1 ELSE 6)
              /\ {from + 8 * forward, to} \cap occupied_of(b) = {}
           \/ /\ from \in own[0] /\ Abs(df) = 1 /\ dr = forward
              /\ b.en_passant_square = Some(to)
              /\ (to - 8 * forward)
                    \in pieces_of(b, opposite(c))[0]
           \/ from \in own[1] /\ {Abs(dr), Abs(df)} = {1, 2}
           \/ /\ from \in own[2] \cup own[4] /\ Abs(dr) = Abs(df)
              /\ clear_between(b, from, to)
           \/ /\ from \in own[3] \cup own[4] /\ (dr = 0 \/ df = 0)
              /\ clear_between(b, from, to)
           \/ from \in own[5] /\ Abs(dr) <= 1 /\ Abs(df) <= 1
           \/ /\ from \in own[5]
              /\ \E w \in castling_wings(c) :
                    /\ from = w.king /\ to = w.to
                    /\ castling_allowed_by_rules(b, w)

\* the move string denotes a legal chess move of b: two squares a1..h8, a
\* promotion letter exactly for a pawn arriving on the last rank, a piece of
\* the side to move that may go there and leaves its king unattacked
denotes_legal_move(b, move_str) ==
    /\ Len(move_str) \in {4, 5}
    /\ \A i \in {1, 3} : file_of_char(move_str[i]) \in 0..7
    /\ \A i \in {2, 4} : rank_of_char(move_str[i]) \in 0..7
    /\ Len(move_str) = 5 => move_str[5] \in {"q", "r", "b", "n"}
    /\ LET from == square_of_chars(move_str, 1)
           to == square_of_chars(move_str, 3)
           promotion ==
               IF Len(move_str) = 4 THEN None
               ELSE CASE move_str[5] = "q" -> Some("Queen")
                      [] move_str[5] = "r" -> Some("Rook")
                      [] move_str[5] = "b" -> Some("Bishop")
                      [] move_str[5] = "n" -> Some("Knight")
       IN  /\ any_piece(pieces_of(b, b.side_to_move), from)
           /\ reaches_by_rules(b, from, to)
           /\ (Len(move_str) = 5) <=>
                 (/\ from \in pieces_of(b, b.side_to_move)[0]
                  /\ rank_of(to) = promotion_rank(b))
           /\ king_safe_by_rules(b, move_by_rules(b, from, to, promotion))

\* C21: a move string of a position command that does not denote a legal
\* chess move of the current position is rejected (parse_move returns None,
\* nothing panics) and leaves the board unchanged
C21_IllegalStringRejected ==
    (parsed # None /\ ~denotes_legal_move(unwrap(parsed).board,
                                          unwrap(parsed).move_str))
    => /\ ~panicked
       /\ unwrap(parsed).result = None
       /\ board = unwrap(parsed).board

\* C22: the string format_move writes for a move m of generate_moves, castling,
\* en-passant and promotion moves included, is accepted by parse_move on the
\* same position, and applying the parsed move gives the board make_move(m)
\* gives
C22_FormatThenParseMakesSameMove ==
    parsed # None =>
        \A made \in unwrap(parsed).by_generated :
            /\ unwrap(parsed).result # None
            /\ board = made

\* C23: evaluate and generate_moves return a value on every legal position,
\* wherever the two kings stand, and no integer operation on the way
\* underflows, overflows or panics
C23_EvaluateIsTotal ==
    /\ ~panicked
    /\ (evaluation # None /\ unwrap(evaluation).call = "evaluate")
       => ~unwrap(evaluation).overflowed

\* the bound that a score is on the window it was searched with
bound_on_window(score, alpha, beta) ==
    IF score >= beta THEN "LowerBound"
    ELSE IF score <= alpha THEN "UpperBound"
    ELSE "Exact"

\* C24: the entry that negamax stores is tagged against the window the node
\* was called with: Exact when the original alpha < best_score < beta,
\* LowerBound when best_score >= beta, UpperBound when best_score <= the
\* original alpha
C24_EntryTaggedAgainstCallWindow ==
    \A k \in 1..Len(search.stores) :
        search.stores[k].entry.node_type =
            bound_on_window(search.stores[k].entry.score,
                            search.stores[k].alpha, search.stores[k].beta)

\* the answer to the last go, when find_best_move ran to its end
last_answer == bestmoves[Len(bestmoves)]

\* the root moves that scored best in the find_best_move that ran last
best_scoring ==
    {search.root_scores[k].mv : k \in
        {k \in 1..Len(search.root_scores) :
            \A j \in 1..Len(search.root_scores) :
                search.root_scores[j].score <= search.root_scores[k].score}}

\* C27: once the deadline has passed no loop, at the root or below, goes on
\* to another move, and find_best_move returns the best-scoring root move of
\* those it has searched, which is at least one
C27_DeadlineEndsEveryLoop ==
    /\ search.overran = 0
    /\ (Len(bestmoves) > 0 /\ ~last_answer.panicked
            /\ Len(generate_moves(last_answer.board)) > 0)
       => /\ Len(search.root_scores) >= 1
          /\ \E mv \in best_scoring :
                 unwrap(last_answer.output) = bestmove_line(Some(mv))

\* the deadline passed during a search of two plies: the root has scored one
\* move of several, and a node below it has left its loop before its last
\* move without a cutoff
C27_Witness ==
    /\ Len(bestmoves) > 0 /\ ~last_answer.panicked
    /\ last_answer.max_depth = 2
    /\ last_answer.nodes_in_time # None
    /\ Len(search.root_scores) = 1
    /\ Len(generate_moves(last_answer.board)) > 1
    /\ \E k \in 1..Len(search.stores) :
          /\ search.stores[k].tried < search.stores[k].moves
          /\ ~search.stores[k].cutoff

\* C28: every entry stored with depth d records the score of a search of all
\* the legal moves of the node, or of a beta cutoff; a node that the deadline
\* cut short stores no entry
C28_StoredScoreIsOfFullSearch ==
    \A k \in 1..Len(search.stores) :
        \/ search.stores[k].tried = search.stores[k].moves
        \/ search.stores[k].cutoff

\* the move mates under the rules of chess: the side to move after it is in
\* check and has no legal move
checkmates(b, mv) ==
    /\ in_check_by_rules(make_move(b, mv))
    /\ ~has_legal_move_by_rules(make_move(b, mv))

\* the moves of generate_moves(b) that checkmate
checkmating_moves(b) ==
    LET among(moves) == {moves[k] : k \in {k \in 1..Len(moves) :
                                               checkmates(b, moves[k])}}
    IN  among(generate_moves(b))

\* C30: when a move of the position checkmates at once, find_best_move with a
\* depth cap of at least 1, an empty transposition table and a deadline that
\* does not expire returns a checkmating move
C30_MateInOneIsFound ==
    (/\ Len(bestmoves) > 0
     /\ ~bestmoves[1].panicked
     /\ bestmoves[1].max_depth >= 1
     /\ bestmoves[1].nodes_in_time = None)
    => LET answered(mating) ==
               \/ mating = {}
               \/ \E mv \in mating :
                      unwrap(bestmoves[1].output) = bestmove_line(Some(mv))
       IN  answered(checkmating_moves(bestmoves[1].board))

\* the move goes from and to the squares of one of the killers
matches_killer(mv, killers) ==
    \E slot \in 1..2 :
        /\ killers[slot] # None
        /\ unwrap(killers[slot]).from = mv.from
        /\ unwrap(killers[slot]).to = mv.to

\* a move that is no capture and no promotion
is_quiet(mv) == mv.captured_piece = None /\ mv.promotion = None

\* C26: when order_moves orders the moves of a node, every move that matches
\* a killer registered for the ply of the node earlier in the same
\* find_best_move stands before every quiet move that matches none (the
\* move of the transposition table apart, which goes first), whatever the
\* history scores are
C26_KillersBeforeQuietMoves ==
    \A k \in 1..Len(search.orderings) :
        LET ordering == search.orderings[k]
        IN  \A i \in 1..Len(ordering.moves) : \A j \in 1..Len(ordering.moves) :
                (/\ i < j
                 /\ matches_killer(ordering.moves[j], ordering.killer_moves)
                 /\ is_quiet(ordering.moves[i])
                 /\ ~matches_killer(ordering.moves[i], ordering.killer_moves))
                => /\ ordering.hash_move # None
                   /\ move_to_u64(ordering.moves[i]) = unwrap(ordering.hash_move)

\* C29: a store under a hash that the table holds replaces the entry of that
\* hash only: every other entry the table held is still there and unchanged,
\* at capacity too
C29_StoreOnPresentHashKeepsOthers ==
    [][(Store /\ unwrap(last_stored').hash \in DOMAIN tt.table)
       => \A other \in DOMAIN tt.table :
              other # unwrap(last_stored').hash
              => /\ other \in DOMAIN tt'.table
                 /\ tt'.table[other] = tt.table[other]]_vars

\* generate_moves(b) holds no capture and no promotion
no_capture_or_promotion(b) ==
    LET all_quiet(moves) == \A k \in 1..Len(moves) : is_quiet(moves[k])
    IN  all_quiet(generate_moves(b))

\* C25: at a horizon node without captures and promotions, searched with the
\* full window, negamax and quiescence_search return the static evaluation
\* from the side to move: evaluate(pos) for White, -evaluate(pos) for Black
C25_HorizonScoreIsOfSideToMove ==
    (/\ evaluation # None
     /\ unwrap(evaluation).call \in {"negamax", "quiescence_search"}
     /\ ~unwrap(evaluation).overflowed
     /\ no_capture_or_promotion(board))
    => unwrap(evaluation).score =
           (IF board.side_to_move = "White" THEN evaluate(board)
            ELSE -evaluate(board))

====
